---- MODULE Spec2Model ----
(***************************************************************************)
(* CaseLawGPT retrieval core: the chunker (preprocessing.chunk_text), the   *)
(* vector search with its metadata join (vectorstore.search), the result    *)
(* filter (pipeline.filter_results), the two run_query orchestrators        *)
(* (src/src/pipeline.py and the older rag_pipeline.py), answer generation   *)
(* (llm.generate_answer), and the life cycle of the vector artifact:        *)
(* build_index writing faiss.index and chunk_ids.npy, and _load_index and   *)
(* load_embedder filling the module-level caches of a querying process.     *)
(* The data path that fills the store is modelled too: ingest_cases with   *)
(* extract_opinions and clean_text, process_opinions with insert_chunks,   *)
(* the tables of database.py as row sequences in rowid order, the store    *)
(* connections search and build_index open, and the page iterator          *)
(* iter_scotus_opinions of scripts/download_courtlistener.py.              *)
(*                                                                         *)
(* An opinion text or chunk is a sequence of words and whitespace          *)
(* characters; a word is one of four strings that differ in the two        *)
(* properties the sentence pattern looks at: whether the word starts with  *)
(* an upper-case letter and whether it ends with . ! or ?                  *)
(* A string that is compared with < or > (a date) is a sequence of         *)
(* character codes compared lexicographically.                             *)
(***************************************************************************)
EXTENDS Integers, Sequences, FiniteSets, TLC

\* ------------------------------------------------------------------------
\* Bounds of the model
\* ------------------------------------------------------------------------
MaxTextLen == 5      \* longest text, in tokens
MaxTarget == 3       \* largest CHUNK_TARGET_TOKENS tried
MaxOverlap == 2      \* largest CHUNK_OVERLAP tried
MaxCands == 2        \* longest candidate list handed to filter_results directly
MaxRows == 4         \* most rows in the index, the id map and the chunks table
MaxBudget == 2       \* largest MAX_CONTEXT_CHUNKS tried
MaxTopK == 4         \* largest top_k requested
MaxCorpus == 3       \* most chunk rows a build reads
MaxBatch == 2        \* largest encoding batch size tried
MaxBuilds == 2       \* most build_index runs in one behaviour
MaxCalls == 2        \* most search / run_query calls against the files
MaxThreads == 2      \* threads of one process that make their first search
MaxInsertRows == 2   \* most rows handed to one insert_chunks call
MaxFiles == 2        \* most JSON files in the raw data directory
MaxOpinions == 2     \* most opinions in one case file / in the opinions table
MaxRuns == 2         \* most ingest_cases / process_opinions runs in one behaviour
MaxPages == 2        \* most result pages the opinions endpoint serves
MaxRetries == 2      \* largest max_retries tried

VARIABLES
    \* configuration (config.py); the chunking sizes are scaled down and
    \* drawn in Init
    CHUNK_TARGET_TOKENS, CHUNK_MAX_TOKENS, CHUNK_OVERLAP,
    \* chunk_text: argument, locals and return value
    text, sentences, sentence_i, current_tokens, current_length, chunks,
    chunk_result, chunk_pc,
    \* filter_results: arguments and return value of one call
    f_results, f_courts, f_start_date, f_end_date, f_filtered, f_pc,
    \* retrieval configuration (config.py), scaled down and drawn in Init
    MAX_CONTEXT_CHUNKS,
    \* the loaded vector index, as the engine answers the query: row indices
    \* in rank order and the score at each rank
    index_ranking, index_scores,
    \* the loaded id map: row index -> chunk_id
    id_map,
    \* the store: chunk_id -> the row of chunks JOIN cases
    store,
    \* one call of search or run_query: arguments, intermediate and returned values
    q_op, q_top_k, q_courts, q_start_date, q_end_date,
    q_search_k, q_retrieved, q_filtered, q_context, q_prompt, q_chunks,
    \* the answer run_query returned and the exception that left the call
    q_answer, q_raised,
    \* the generation service (Ollama) as the next request will find it, and
    \* the context list of every generate_answer call made so far
    ollama, gen_calls,
    \* the embedding model: the vector it gives each text
    encode_fn,
    \* build_index: the batch size it encodes with (64, scaled down and drawn
    \* in Init), the number of runs started, and the position, locals and
    \* error of the current run
    batch_size, b_run, b_pc, b_rows, b_embeddings, b_error,
    \* the persisted artifact: faiss.index and chunk_ids.npy
    file_index, file_id_map,
    \* the module-level caches _index, _chunk_id_map and _embedder of the
    \* querying process
    cache_index, cache_chunk_id_map, cache_embedder,
    \* what the querying process has done so far: artifact files read,
    \* embedders constructed, SQL queries sent to the store
    file_reads, embedders_built, store_queries,
    \* the query text of the last search, the number of calls made, and the
    \* build run whose index file was on disk when the last call was made
    q_query, q_calls, q_disk_run,
    \* threads of one process inside the first two lines of search: where
    \* each is, and what _load_index and load_embedder returned to it
    t_pc, t_index, t_id_map, t_embedder,
    \* the SQLite database: the tables cases, opinions and chunks, each the
    \* sequence of its rows in rowid order, and the AUTOINCREMENT counter of
    \* opinions
    db_cases, db_opinions, db_seq, db_chunks,
    \* one call of insert_chunks: its rows argument, the chunks table before
    \* the call and the exception that left it
    ic_pc, ic_rows, ic_before, ic_raised,
    \* ingest_cases: configuration (config.py, scaled down and drawn in
    \* Init), the files rglob finds, runs started, position in the file
    \* loop, the exception that ended the run, and the database as every
    \* finished run left it
    MIN_OPINION_LENGTH, raw_files, ing_run, ing_pc, ing_i, ing_error, ing_left,
    \* process_opinions: runs started, position, the fetched opinion rows,
    \* the loop index, the pending rows, the running total, the chunks table
    \* as every finished run left it, and whether uuid4 ever gave a chunk an
    \* identifier that another chunk already had
    p_run, p_pc, p_fetched, p_i, rows_to_insert, total_chunks, p_left, p_id_clash,
    \* iter_scotus_opinions: the pages the endpoint serves, max_retries, and
    \* the generator's position, page, attempt number, position in the
    \* page's results, the requests sent per page and the opinions yielded
    dl_pages, dl_max_retries, dl_pc, dl_page, dl_attempt, dl_result_i,
    dl_requests, dl_yielded,
    \* the database file as search and build_index find it, and the
    \* connections they opened and left open when the call ended
    db_file, open_conns

chunkVars == << CHUNK_TARGET_TOKENS, CHUNK_MAX_TOKENS, CHUNK_OVERLAP,
                text, sentences, sentence_i, current_tokens, current_length,
                chunks, chunk_result, chunk_pc >>

filterVars == << f_results, f_courts, f_start_date, f_end_date, f_filtered, f_pc >>

envVars == << MAX_CONTEXT_CHUNKS, index_ranking, index_scores, id_map, store >>

callVars == << q_op, q_top_k, q_courts, q_start_date, q_end_date,
               q_search_k, q_retrieved, q_filtered, q_context, q_prompt, q_chunks,
               q_answer, q_raised >>

genVars == << ollama, gen_calls >>

buildVars == << batch_size, b_run, b_pc, b_rows, b_embeddings, b_error >>

fileVars == << file_index, file_id_map >>

cacheVars == << cache_index, cache_chunk_id_map, cache_embedder,
                file_reads, embedders_built >>

indexVars == << encode_fn, buildVars, fileVars, cacheVars, store_queries, q_query,
               q_calls, q_disk_run >>

threadVars == << t_pc, t_index, t_id_map, t_embedder >>

queryVars == << envVars, callVars, genVars, indexVars, threadVars >>

dbVars == << db_cases, db_opinions, db_seq, db_chunks >>

insertVars == << ic_pc, ic_rows, ic_before, ic_raised >>

ingestVars == << MIN_OPINION_LENGTH, raw_files, ing_run, ing_pc, ing_i, ing_error,
                 ing_left >>

processVars == << p_run, p_pc, p_fetched, p_i, rows_to_insert, total_chunks, p_left,
                  p_id_clash >>

downloadVars == << dl_pages, dl_max_retries, dl_pc, dl_page, dl_attempt, dl_result_i,
                   dl_requests, dl_yielded >>

dataVars == << dbVars, insertVars, ingestVars, processVars, downloadVars >>

connVars == << db_file, open_conns >>

vars == << chunkVars, filterVars, queryVars, dataVars, connVars >>

\* ------------------------------------------------------------------------
\* Generic helpers
\* ------------------------------------------------------------------------
Min(a, b) == IF a <= b THEN a ELSE b
Max(a, b) == IF a >= b THEN a ELSE b

SeqsUpTo(S, n) == UNION { [1..k -> S] : k \in 0..n }

\* Python lst[:n] for n >= 0
Prefix(s, n) == SubSeq(s, 1, Min(n, Len(s)))

RECURSIVE Concat(_)
Concat(ss) == IF ss = << >> THEN << >> ELSE Head(ss) \o Concat(Tail(ss))

\* ------------------------------------------------------------------------
\* preprocessing.py
\* ------------------------------------------------------------------------
\* A str of opinion text is a sequence of words and whitespace characters.
\* The four words differ in what the sentence pattern looks at: an upper-case
\* first letter, a final . ! or ?
Space == " "
Tokens == { "a", "B", "c.", "D." }
UpperTokens == { "B", "D." }       \* words matching (?=[A-Z]) at their start
EndTokens == { "c.", "D." }        \* words matching (?<=[.!?]) at their end

\* text.split(): the words between runs of whitespace; no empty strings
tokenize(t) == SelectSeq(t, LAMBDA x : x # Space)

\* " ".join(tokens)
RECURSIVE Join(_)
Join(tokens) ==
    IF tokens = << >> THEN << >>
    ELSE IF Len(tokens) = 1 THEN tokens
    ELSE << Head(tokens), Space >> \o Join(Tail(tokens))

\* s.strip()
RECURSIVE LStrip(_)
LStrip(t) == IF t # << >> /\ Head(t) = Space THEN LStrip(Tail(t)) ELSE t

RECURSIVE RStrip(_)
RStrip(t) ==
    IF t # << >> /\ t[Len(t)] = Space THEN RStrip(SubSeq(t, 1, Len(t) - 1)) ELSE t

Strip(t) == RStrip(LStrip(t))

\* the run of whitespace t starts with
RECURSIVE LeadingSpaces(_)
LeadingSpaces(t) ==
    IF t # << >> /\ Head(t) = Space THEN << Space >> \o LeadingSpaces(Tail(t))
    ELSE << >>

\* SENTENCE_PATTERN.split(text): the pattern matches a whole run of
\* whitespace that follows a word ending in . ! ? and precedes a word
\* starting with an upper-case letter; the run is removed and the text is cut
\* there.  All other whitespace stays in the segments.  The result is never
\* empty: a text without a match is one segment.
RECURSIVE SplitFrom(_, _)
SplitFrom(t, acc) ==
    IF t = << >> THEN << acc >>
    ELSE IF Head(t) # Space THEN SplitFrom(Tail(t), Append(acc, Head(t)))
    ELSE LET run == LeadingSpaces(t)
             after == SubSeq(t, Len(run) + 1, Len(t))
         IN  IF /\ acc # << >> /\ acc[Len(acc)] \in EndTokens
                /\ after # << >> /\ Head(after) \in UpperTokens
             THEN << acc >> \o SplitFrom(after, << >>)
             ELSE SplitFrom(after, acc \o run)

SENTENCE_PATTERN_split(t) == SplitFrom(t, << >>)

\* lst[-n:] taking one element too many
NegSlice_extra(s, n) ==
    IF n + 1 >= Len(s) THEN s ELSE SubSeq(s, Len(s) - n, Len(s))

\* Python lst[-n:] for n >= 0: the last n elements, the whole list when
\* n >= len(lst), and the whole list when n = 0 (lst[-0:] is lst[0:]).
NegSlice(s, n) ==
    IF n = 0 \/ n >= Len(s) THEN s ELSE SubSeq(s, Len(s) - n + 1, Len(s))

\* One iteration of `for sentence in sentences` (both if statements).
ChunkLoopStep ==
    /\ chunk_pc = "loop"
    /\ sentence_i <= Len(sentences)
    /\ LET tokens == tokenize(sentences[sentence_i])
           overMax == current_length + Len(tokens) > CHUNK_MAX_TOKENS
                      /\ current_tokens # << >>
           chunks1 == IF overMax
                      THEN Append(chunks, Strip(Join(current_tokens)))
                      ELSE chunks
           cur1 == IF overMax
                   THEN NegSlice(tokenize(Join(current_tokens)), CHUNK_OVERLAP)
                            \o tokens
                   ELSE current_tokens \o tokens
           len1 == IF overMax THEN Len(cur1) ELSE current_length + Len(tokens)
           atTarget == len1 >= CHUNK_TARGET_TOKENS
       IN /\ chunks' = IF atTarget THEN Append(chunks1, Strip(Join(cur1))) ELSE chunks1
          /\ current_tokens' = IF atTarget THEN NegSlice(cur1, CHUNK_OVERLAP) ELSE cur1
          /\ current_length' = IF atTarget THEN Len(NegSlice(cur1, CHUNK_OVERLAP)) ELSE len1
    /\ sentence_i' = sentence_i + 1
    /\ UNCHANGED << CHUNK_TARGET_TOKENS, CHUNK_MAX_TOKENS, CHUNK_OVERLAP,
                    text, sentences, chunk_result, chunk_pc >>
    /\ UNCHANGED << filterVars, queryVars, dataVars, connVars >>

\* the return without the `if current_tokens` flush of the remainder
ChunkFinish_noRemainder ==
    /\ chunk_pc = "loop"
    /\ sentence_i > Len(sentences)
    /\ chunk_result' = SelectSeq(chunks, LAMBDA c : c # << >>)
    /\ chunk_pc' = "done"
    /\ UNCHANGED << CHUNK_TARGET_TOKENS, CHUNK_MAX_TOKENS, CHUNK_OVERLAP, text,
                    sentences, sentence_i, current_tokens, current_length, chunks >>
    /\ UNCHANGED << filterVars, queryVars, dataVars, connVars >>

\* After the loop: the remainder becomes a chunk, empty chunks are dropped.
ChunkFinish ==
    /\ chunk_pc = "loop"
    /\ sentence_i > Len(sentences)
    /\ LET all == IF current_tokens # << >>
                  THEN Append(chunks, Strip(Join(current_tokens)))
                  ELSE chunks
       IN /\ chunks' = all
          /\ chunk_result' = SelectSeq(all, LAMBDA c : c # << >>)
    /\ chunk_pc' = "done"
    /\ UNCHANGED << CHUNK_TARGET_TOKENS, CHUNK_MAX_TOKENS, CHUNK_OVERLAP,
                    text, sentences, sentence_i, current_tokens, current_length >>
    /\ UNCHANGED << filterVars, queryVars, dataVars, connVars >>

\* The texts tried: up to MaxTextLen words, either single-spaced or with a
\* leading and a trailing whitespace character and two between words.
Layout(words, padded) ==
    IF ~padded THEN Join(words)
    ELSE << Space >> \o Concat([ i \in 1..Len(words) |-> << words[i], Space, Space >> ])

Texts == { Layout(w, p) : w \in SeqsUpTo(Tokens, MaxTextLen), p \in BOOLEAN }

\* chunk_text(text) is entered: the text is split, the locals are fresh.
ChunkInit ==
    /\ CHUNK_TARGET_TOKENS \in 2..MaxTarget
    /\ CHUNK_MAX_TOKENS \in CHUNK_TARGET_TOKENS..(MaxTarget + 1)
    /\ CHUNK_OVERLAP \in 0..MaxOverlap
    /\ text \in Texts
    /\ sentences = SENTENCE_PATTERN_split(text)
    /\ sentence_i = 1
    /\ current_tokens = << >>
    /\ current_length = 0
    /\ chunks = << >>
    /\ chunk_result = << >>
    /\ chunk_pc = "loop"

\* ------------------------------------------------------------------------
\* pipeline.py / rag_pipeline.py: filter_results
\* ------------------------------------------------------------------------
\* A Python Optional: None is the empty tuple, a value v is the 1-tuple <<v>>.
None == << >>
Some(v) == << v >>
ValueOf(o) == o[1]

\* A str that is compared with < and >: its characters' codes.  "" is << >>.
EmptyStr == << >>

\* Python a < b on str: lexicographic by character, a proper prefix is less.
RECURSIVE StrLess(_, _)
StrLess(a, b) ==
    IF b = << >> THEN FALSE
    ELSE IF a = << >> THEN TRUE
    ELSE IF Head(a) # Head(b) THEN Head(a) < Head(b)
    ELSE StrLess(Tail(a), Tail(b))

\* Python truth value of an Optional[str] / Optional[Sequence]: None and the
\* empty value are false.
Truthy(o) == o # None /\ ValueOf(o) # << >>

\* x or ""
OrEmpty(o) == IF Truthy(o) THEN ValueOf(o) ELSE EmptyStr

\* within_date_range with both bounds exclusive (<= and >= for < and >)
within_date_range_exclusive(start_date, end_date, decision_date) ==
    IF decision_date = EmptyStr THEN TRUE
    ELSE IF Truthy(start_date) /\ ~StrLess(ValueOf(start_date), decision_date) THEN FALSE
    ELSE IF Truthy(end_date) /\ ~StrLess(decision_date, ValueOf(end_date)) THEN FALSE
    ELSE TRUE

\* within_date_range with the empty-date test inverted
within_date_range_dropsEmpty(start_date, end_date, decision_date) ==
    IF decision_date = EmptyStr THEN FALSE
    ELSE IF Truthy(start_date) /\ StrLess(decision_date, ValueOf(start_date)) THEN FALSE
    ELSE IF Truthy(end_date) /\ StrLess(ValueOf(end_date), decision_date) THEN FALSE
    ELSE TRUE

\* within_date_range(decision_date) with start_date, end_date of the closure
within_date_range(start_date, end_date, decision_date) ==
    IF decision_date = EmptyStr THEN TRUE
    ELSE IF Truthy(start_date) /\ StrLess(decision_date, ValueOf(start_date)) THEN FALSE
    ELSE IF Truthy(end_date) /\ StrLess(ValueOf(end_date), decision_date) THEN FALSE
    ELSE TRUE

\* value in courts, for a field value that may be None
InCourts(court, courts) ==
    \E i \in 1..Len(courts) : court = Some(courts[i])

\* str.lower() on the court names of the model
Lower(c) == IF c = "Supreme Court" THEN "supreme court" ELSE c

\* the court test made case-insensitive
court_skipped_lower(courts, court) ==
    /\ Truthy(courts)
    /\ ~(court # None /\ \E i \in 1..Len(ValueOf(courts)) :
                            Lower(ValueOf(court)) = Lower(ValueOf(courts)[i]))

\* `courts and result.get("court") not in courts` : the candidate is skipped
court_skipped(courts, court) ==
    Truthy(courts) /\ ~InCourts(court, ValueOf(courts))

\* filter_results(results, courts, start_date, end_date)
filter_results(results, courts, start_date, end_date) ==
    SelectSeq(results, LAMBDA r :
        /\ ~court_skipped(courts, r.court)
        /\ within_date_range(start_date, end_date, OrEmpty(r.decision_date)))

\* Inputs of the direct calls
CourtNames == { "Supreme Court", "supreme court", "District Court" }
CourtFields == { None } \cup { Some(c) : c \in CourtNames }
\* "19", "20", "21" stand for three consecutive days; "2" is a shorter string
DateStrs == { << 1, 9 >>, << 2, 0 >>, << 2, 1 >> }
DateFields == { None, Some(EmptyStr) } \cup { Some(d) : d \in DateStrs }
DateArgs == DateFields \cup { Some(<< 2 >>) }
CourtsArgs == { None, Some(<< >>), Some(<< "Supreme Court" >>),
                Some(<< "District Court", "supreme court" >>) }
Candidates == [ court : CourtFields, decision_date : DateFields ]

\* One call filter_results(results, courts, start_date, end_date).
FilterCall ==
    /\ f_pc = "idle"
    /\ \E results \in SeqsUpTo(Candidates, MaxCands), courts \in CourtsArgs,
          start_date \in DateArgs, end_date \in DateArgs :
          /\ f_results' = results
          /\ f_courts' = courts
          /\ f_start_date' = start_date
          /\ f_end_date' = end_date
          /\ f_filtered' = filter_results(results, courts, start_date, end_date)
    /\ f_pc' = "done"
    /\ UNCHANGED << chunkVars, queryVars, dataVars, connVars >>

\* ------------------------------------------------------------------------
\* vectorstore.py: search
\* ------------------------------------------------------------------------
\* the score the engine reports with a padding entry (row index -1)
PadScore == -9

\* index.search(query_vec, k): the k best rows in rank order; when the index
\* holds fewer than k rows the answer is padded with row index -1.
index_search(k) ==
    [ j \in 1..k |->
        IF j <= Len(index_ranking)
        THEN [ idx |-> index_ranking[j], score |-> index_scores[j] ]
        ELSE [ idx |-> -1, score |-> PadScore ] ]

\* id_map[i] on the numpy array: i >= 0 counts from the front, i < 0 from the
\* back (id_map[-1] is the last entry)
id_map_at(i) == IF i < 0 THEN id_map[Len(id_map) + i + 1] ELSE id_map[i + 1]

\* found_ids = [id_map[i] for i in idxs[0] if i < len(id_map)]
found_ids(hits) ==
    LET ok == SelectSeq(hits, LAMBDA h : h.idx < Len(id_map))
    IN [ j \in 1..Len(ok) |-> id_map_at(ok[j].idx) ]

\* the dict appended to results for one hit
result_row(chunk_id, score) ==
    [ chunk_id |-> chunk_id,
      text |-> store[chunk_id].text,
      court |-> store[chunk_id].court,
      decision_date |-> store[chunk_id].decision_date,
      score |-> score ]

\* search with a `break` where the code has `continue` for a hit that has
\* no row in the store
search_stopAtStale(top_k) ==
    LET hits == index_search(top_k)
        stale == { j \in 1..Len(hits) :
                     /\ hits[j].idx < Len(id_map)
                     /\ id_map_at(hits[j].idx) \notin DOMAIN store }
        upto == IF stale = { } THEN Len(hits)
                ELSE (CHOOSE j \in stale : \A i \in stale : j <= i) - 1
        kept == SelectSeq(Prefix(hits, upto), LAMBDA h : h.idx < Len(id_map))
    IN  [ j \in 1..Len(kept) |->
            result_row(id_map_at(kept[j].idx), kept[j].score) ]

\* search with the results built in the order of the rows the SQL query
\* returned instead of the order of the hits
search_dbOrder(top_k) ==
    LET hits == index_search(top_k)
        kept == SelectSeq(hits, LAMBDA h :
                    h.idx < Len(id_map) /\ id_map_at(h.idx) \in DOMAIN store)
        ids == { id_map_at(kept[j].idx) : j \in 1..Len(kept) }
        sorted == SelectSeq([ c \in 1..MaxRows + 1 |-> c ], LAMBDA c : c \in ids)
    IN  [ j \in 1..Len(sorted) |->
            result_row(sorted[j],
                       (CHOOSE h \in { kept[i] : i \in 1..Len(kept) } :
                            id_map_at(h.idx) = sorted[j]).score) ]

\* search(query, top_k): the engine's hits, joined with the store rows of
\* their chunk ids; a hit beyond the id map or without a store row is skipped.
search(top_k) ==
    LET hits == index_search(top_k)
    IN  IF found_ids(hits) = << >> THEN << >>
        ELSE LET kept == SelectSeq(hits, LAMBDA h :
                            h.idx < Len(id_map) /\ id_map_at(h.idx) \in DOMAIN store)
             IN  [ j \in 1..Len(kept) |->
                     result_row(id_map_at(kept[j].idx), kept[j].score) ]

\* ------------------------------------------------------------------------
\* llm.py / llm_local.py: build_prompt
\* ------------------------------------------------------------------------
\* numbered_context: entry "[i+1] chunk" for the i-th context chunk
build_prompt(context_chunks) ==
    [ i \in 1..Len(context_chunks) |-> [ n |-> i, chunk |-> context_chunks[i] ] ]

\* ------------------------------------------------------------------------
\* llm.py: generate_answer
\* ------------------------------------------------------------------------
\* What a request to the generation service runs into: an answer, a refused
\* connection, a timeout, an HTTP error status, a body that is not JSON, a
\* JSON object without a "response" field, or one whose "response" is null.
ServiceStates == { "ok", "refused", "timeout", "http_error", "not_json",
                   "no_response_field", "response_null" }

\* A returned string: its leading label ("" when it has none) and the rest.
AnswerString(label, rest) == [ label |-> label, rest |-> rest ]

\* What a call leaves behind: the exception that escaped it, or its value.
Raised(exc) == [ raised |-> Some(exc), value |-> None ]
Returned(v) == [ raised |-> None, value |-> Some(v) ]

\* response.json().get("response", "").strip() for a reply of the service
response_text(prompt) ==
    IF ollama = "no_response_field" THEN AnswerString("", << >>)
    ELSE AnswerString("", << "generated", prompt >>)

\* the exception the try block raises, if any: requests.post (refused,
\* timeout), raise_for_status (HTTP error), response.json() (not JSON),
\* None.strip() (null response)
try_raises ==
    CASE ollama = "refused" -> Some("ConnectionError")
      [] ollama = "timeout" -> Some("Timeout")
      [] ollama = "http_error" -> Some("HTTPError")
      [] ollama = "not_json" -> Some("JSONDecodeError")
      [] ollama = "response_null" -> Some("AttributeError")
      [] OTHER -> None

\* generate_answer without the last `except Exception` clause
generate_answer_noCatchAll(context_chunks) ==
    LET prompt == build_prompt(context_chunks)
    IN  CASE try_raises = None -> Returned(response_text(prompt))
          [] try_raises = Some("ConnectionError") ->
                Returned(AnswerString("**Error: Cannot connect to Ollama.**", << >>))
          [] try_raises = Some("Timeout") ->
                Returned(AnswerString("**Error: Request timed out.**", << >>))
          [] OTHER -> Raised(ValueOf(try_raises))

\* generate_answer(question, context_chunks): the prompt is built, the
\* request is made, and every exception of the try block is turned into a
\* string that starts with an **Error label.
generate_answer(context_chunks) ==
    LET prompt == build_prompt(context_chunks)
    IN  CASE try_raises = None -> Returned(response_text(prompt))
          [] try_raises = Some("ConnectionError") ->
                Returned(AnswerString("**Error: Cannot connect to Ollama.**", << >>))
          [] try_raises = Some("Timeout") ->
                Returned(AnswerString("**Error: Request timed out.**", << >>))
          [] OTHER -> Returned(AnswerString("**Error:**", << ValueOf(try_raises) >>))

\* llm_local.py generate_answer: the local model decodes an answer to the
\* prompt; no service is involved.
generate_answer_local(context_chunks) ==
    Returned(AnswerString("", << "generated", build_prompt(context_chunks) >>))

\* ------------------------------------------------------------------------
\* pipeline.py and rag_pipeline.py: run_query
\* ------------------------------------------------------------------------
\* [r["text"] for r in rs]
texts(rs) == [ i \in 1..Len(rs) |-> rs[i].text ]

\* [RetrievedChunk(chunk_id=r["chunk_id"], ...) for r in rs]
structured(rs) ==
    [ i \in 1..Len(rs) |->
        [ chunk_id |-> rs[i].chunk_id, text |-> rs[i].text, court |-> rs[i].court,
          decision_date |-> rs[i].decision_date, score |-> rs[i].score ] ]

\* display_chunks without the truncation
display_chunks_all(retrieved) == retrieved

\* pipeline.py: display_chunks = retrieved[:MAX_CONTEXT_CHUNKS]
display_chunks(retrieved) == Prefix(retrieved, MAX_CONTEXT_CHUNKS)

\* rag_pipeline.py: retrieved[:MAX_CONTEXT_CHUNKS] of the context line
context_slice_old(retrieved) == Prefix(retrieved, MAX_CONTEXT_CHUNKS)

RunQueryArgs(top_k, courts, start_date, end_date) ==
    /\ q_top_k' = top_k
    /\ q_courts' = courts
    /\ q_start_date' = start_date
    /\ q_end_date' = end_date

QCourtsArgs == { None, Some(<< "Supreme Court" >>) }
QDateArgs == { None, Some(<< 2, 0 >>) }

\* answer = generate_answer(question, context_chunks) with a return before
\* it when there is no context
answer_call_shortCircuit(context_chunks) ==
    IF context_chunks = << >>
    THEN [ calls |-> gen_calls,
           result |-> Returned(AnswerString("", << "no context" >>)) ]
    ELSE [ calls |-> Append(gen_calls, context_chunks),
           result |-> generate_answer(context_chunks) ]

\* pipeline.py line 109, answer = generate_answer(question, context_chunks):
\* the call is recorded and its outcome handed back
answer_call(context_chunks) ==
    [ calls |-> Append(gen_calls, context_chunks),
      result |-> generate_answer(context_chunks) ]

\* src/src/pipeline.py run_query, lines 97-131: what follows the return of
\* search
run_query_body(retrieved, top_k, courts, start_date, end_date) ==
    LET filtered == filter_results(retrieved, courts, start_date, end_date)
        shown == display_chunks(filtered)
        reply == answer_call(texts(shown))
    IN /\ RunQueryArgs(top_k, courts, start_date, end_date)
       /\ q_retrieved' = retrieved
       /\ q_filtered' = filtered
       /\ q_context' = texts(shown)
       /\ q_prompt' = build_prompt(texts(shown))
       /\ gen_calls' = reply.calls
       /\ q_raised' = reply.result.raised
       /\ q_answer' = reply.result.value
       /\ q_chunks' = IF reply.result.raised = None
                      THEN structured(shown) ELSE << >>

\* src/src/pipeline.py run_query(question, top_k, courts, start_date, end_date)
\* in a process whose index and id map are loaded
RunQuery ==
    /\ q_op = "idle"
    /\ \E top_k \in 1..MaxTopK, courts \in QCourtsArgs,
          start_date \in QDateArgs, end_date \in QDateArgs :
          LET k == Max(top_k, MAX_CONTEXT_CHUNKS * 2)
          IN /\ q_search_k' = k
             /\ run_query_body(search(k), top_k, courts, start_date, end_date)
    /\ q_op' = "run_query"
    /\ UNCHANGED << chunkVars, filterVars, threadVars, envVars, ollama, indexVars,
                    dataVars, connVars >>

\* rag_pipeline.py run_query(question, top_k, courts, start_date, end_date)
RunQueryOld ==
    /\ q_op = "idle"
    /\ \E top_k \in 1..MaxTopK, courts \in QCourtsArgs,
          start_date \in QDateArgs, end_date \in QDateArgs :
          LET k == Max(top_k, MAX_CONTEXT_CHUNKS * 2)
              retrieved == search(k)
              filtered == filter_results(retrieved, courts, start_date, end_date)
              context_chunks == texts(context_slice_old(filtered))
          IN /\ RunQueryArgs(top_k, courts, start_date, end_date)
             /\ q_search_k' = k
             /\ q_retrieved' = retrieved
             /\ q_filtered' = filtered
             /\ q_context' = context_chunks
             /\ q_prompt' = build_prompt(context_chunks)
             /\ gen_calls' = Append(gen_calls, context_chunks)
             /\ q_raised' = None
             /\ q_answer' = generate_answer_local(context_chunks).value
             /\ q_chunks' = structured(Prefix(filtered, top_k))
    /\ q_op' = "run_query_old"
    /\ UNCHANGED << chunkVars, filterVars, threadVars, envVars, ollama, indexVars,
                    dataVars, connVars >>

\* a direct call search(query, top_k) (the --query command line)
SearchCall ==
    /\ q_op = "idle"
    /\ \E top_k \in 1..MaxTopK :
          /\ q_top_k' = top_k
          /\ q_search_k' = top_k
          /\ q_retrieved' = search(top_k)
    /\ q_op' = "search"
    /\ q_raised' = None
    /\ UNCHANGED << q_courts, q_start_date, q_end_date, q_filtered, q_context,
                    q_prompt, q_chunks, q_answer >>
    /\ UNCHANGED << chunkVars, filterVars, threadVars, envVars, genVars, indexVars,
                    dataVars, connVars >>

\* The rows of chunks JOIN cases the queries run against.  Chunk k carries
\* one of three courts (or none) and one of three dates (or "" or none).
CourtOfChunk(k) ==
    CASE k % 3 = 1 -> Some("Supreme Court")
      [] k % 3 = 2 -> Some("District Court")
      [] OTHER -> None

DateOfChunk(k) ==
    CASE k % 4 = 1 -> Some(<< 2, 1 >>)
      [] k % 4 = 2 -> Some(<< 1, 9 >>)
      [] k % 4 = 3 -> Some(<< 2, 0 >>)
      [] OTHER -> Some(EmptyStr)

StoreRow(k) == [ text |-> << "text", k >>, court |-> CourtOfChunk(k),
                 decision_date |-> DateOfChunk(k) ]

RowOrders(n) ==
    { p \in [1..n -> 0..(n - 1)] : \A i, j \in 1..n : i # j => p[i] # p[j] }

ScoreValues == { 1, 2 }
NonIncreasing(n) ==
    { sc \in [1..n -> ScoreValues] : \A i \in 1..(n - 1) : sc[i] >= sc[i + 1] }

\* A process with a loaded index of 1..MaxRows rows, an id map (row i ->
\* chunk i+1) with one entry per index row or one entry less (a pair left by
\* different builds), and a store in which chunk 1 or chunk 2 may have lost
\* its row since the build.
QueryInit ==
    /\ MAX_CONTEXT_CHUNKS \in 1..MaxBudget
    /\ \E n \in 1..MaxRows :
          /\ index_ranking \in RowOrders(n)
          /\ index_scores \in NonIncreasing(n)
          /\ \E m \in { n - 1, n } \cap (1..MaxRows) : id_map = [ i \in 1..m |-> i ]
    /\ \E missing \in { 0, 1, 2 } :
          store = [ k \in (1..MaxRows) \ { missing } |-> StoreRow(k) ]
    /\ q_op = "idle"
    /\ q_top_k = 0
    /\ q_courts = None
    /\ q_start_date = None
    /\ q_end_date = None
    /\ q_search_k = 0
    /\ q_retrieved = << >>
    /\ q_filtered = << >>
    /\ q_context = << >>
    /\ q_prompt = << >>
    /\ q_chunks = << >>
    /\ q_answer = None
    /\ q_raised = None
    /\ ollama = "ok"
    /\ gen_calls = << >>

\* ------------------------------------------------------------------------
\* database.py: get_connection, as search and build_index use it
\* ------------------------------------------------------------------------
\* The database file is "absent", holds "no_tables" (an empty file), or is
\* "ready" (init_db has run; the rows of chunks JOIN cases are `store`).
NoSuchTable == "OperationalError: no such table: chunks"

\* a connect that opens a new, empty database in place of the file
get_connection_recreate(file) == "no_tables"

\* get_connection(db_path): the parent directory is made, sqlite3.connect
\* creates an empty database file when there is none and opens an existing
\* one as it is, the PRAGMA changes nothing in the file
get_connection(file) == IF file = "absent" THEN "no_tables" ELSE file

\* conn = get_connection(...); cur = conn.execute(SELECT ...); cur.fetchall();
\* conn.close() as written in search (lines 167-190) and build_index (lines
\* 81-84): when execute raises, conn.close() is not reached
store_read(file) ==
    IF get_connection(file) = "ready"
    THEN [ file |-> get_connection(file), raised |-> None, left_open |-> 0 ]
    ELSE [ file |-> get_connection(file), raised |-> Some(NoSuchTable),
           left_open |-> 1 ]

\* the rows the database holds
StoreRows == IF db_file = "ready" THEN store ELSE << >>

ConnReady ==
    /\ db_file = "ready"
    /\ open_conns = 0

\* ------------------------------------------------------------------------
\* vectorstore.py: build_index
\* ------------------------------------------------------------------------
\* The chunk texts and the vectors of the embedding model.  embedder.encode
\* with normalize_embeddings=True gives each text one unit vector; two texts
\* may get the same vector.
TextPool == { "ta", "tb" }
Vectors == { "va", "vb" }
Embedders == { f \in [TextPool -> Vectors] : f["ta"] = "va" }

\* embedder.encode(list(batch), normalize_embeddings=True)
encode(batch) == [ i \in 1..Len(batch) |-> encode_fn[batch[i]] ]

\* items[a:b] of a Python list
Slice(items, a, b) == SubSeq(items, a + 1, Min(b, Len(items)))

\* _batch_iterable that yields the full batches only
batch_iterable_dropTail(items, size) ==
    [ j \in 1..(Len(items) \div size) |->
        Slice(items, (j - 1) * size, (j - 1) * size + size) ]

\* _batch_iterable(items, batch_size): the slices items[i : i + batch_size]
\* for i in range(0, len(items), batch_size)
batch_iterable(items, size) ==
    [ j \in 1..((Len(items) + size - 1) \div size) |->
        Slice(items, (j - 1) * size, (j - 1) * size + size) ]

\* cur.fetchall() of SELECT chunk_id, text FROM chunks: the rows in table order
fetch_rows ==
    LET ids == SelectSeq([ c \in 1..MaxCorpus |-> c ], LAMBDA c : c \in DOMAIN store)
    IN  [ i \in 1..Len(ids) |-> << ids[i], store[ids[i]].text >> ]

\* chunk_ids, texts = zip(*rows)
chunk_ids_of(rows) == [ i \in 1..Len(rows) |-> rows[i][1] ]
texts_of(rows) == [ i \in 1..Len(rows) |-> rows[i][2] ]

BuildRunning == b_pc \in { "encode", "index_written" }

\* build_index without the `if not rows` test
BuildStart_noCheck ==
    /\ ~BuildRunning
    /\ b_pc # "off"
    /\ b_run < MaxBuilds
    /\ b_run' = b_run + 1
    /\ db_file' = store_read(db_file).file
    /\ open_conns' = open_conns + store_read(db_file).left_open
    /\ b_embeddings' = << >>
    /\ IF store_read(db_file).raised # None
       THEN /\ b_rows' = << >>
            /\ b_error' = store_read(db_file).raised
            /\ b_pc' = "failed"
       ELSE /\ b_rows' = fetch_rows
            /\ b_error' = None
            /\ b_pc' = "encode"
    /\ UNCHANGED << batch_size, encode_fn, fileVars, cacheVars, store_queries, q_query,
                    q_calls, q_disk_run >>
    /\ UNCHANGED << chunkVars, filterVars, threadVars, envVars, callVars, genVars,
                    dataVars >>

\* python -m src.vectorstore --build, lines 81-91: the rows are fetched (a
\* failing SELECT ends the run with the connection open); with no rows the
\* run ends in RuntimeError, otherwise the encoding loop is entered.
BuildStart ==
    /\ ~BuildRunning
    /\ b_pc # "off"
    /\ b_run < MaxBuilds
    /\ b_run' = b_run + 1
    /\ db_file' = store_read(db_file).file
    /\ open_conns' = open_conns + store_read(db_file).left_open
    /\ b_embeddings' = << >>
    /\ IF store_read(db_file).raised # None
       THEN /\ b_rows' = << >>
            /\ b_error' = store_read(db_file).raised
            /\ b_pc' = "failed"
       ELSE /\ b_rows' = fetch_rows
            /\ IF fetch_rows = << >>
               THEN /\ b_error' = Some("RuntimeError: No chunks found. Run preprocessing first.")
                    /\ b_pc' = "failed"
               ELSE /\ b_error' = None
                    /\ b_pc' = "encode"
    /\ UNCHANGED << batch_size, encode_fn, fileVars, cacheVars, store_queries, q_query,
                    q_calls, q_disk_run >>
    /\ UNCHANGED << chunkVars, filterVars, threadVars, envVars, callVars, genVars,
                    dataVars >>

\* lines 95-102: one pass of the loop encodes the next batch
BuildEncodeBatch ==
    /\ b_pc = "encode"
    /\ LET batches == batch_iterable(texts_of(b_rows), batch_size)
       IN  /\ Len(b_embeddings) < Len(batches)
           /\ b_embeddings' = Append(b_embeddings, encode(batches[Len(b_embeddings) + 1]))
    /\ UNCHANGED << batch_size, b_run, b_pc, b_rows, b_error >>
    /\ UNCHANGED << encode_fn, fileVars, cacheVars, store_queries, q_query, q_calls,
                    q_disk_run >>
    /\ UNCHANGED << chunkVars, filterVars, threadVars, envVars, callVars, genVars,
                    dataVars, connVars >>

\* lines 107-116: the batches are concatenated and the index file is written
BuildWriteIndex ==
    /\ b_pc = "encode"
    /\ Len(b_embeddings) = Len(batch_iterable(texts_of(b_rows), batch_size))
    /\ file_index' = Some([ run |-> b_run, vectors |-> Concat(b_embeddings) ])
    /\ b_pc' = "index_written"
    /\ UNCHANGED << batch_size, b_run, b_rows, b_embeddings, b_error, file_id_map >>
    /\ UNCHANGED << encode_fn, cacheVars, store_queries, q_query, q_calls,
                    q_disk_run >>
    /\ UNCHANGED << chunkVars, filterVars, threadVars, envVars, callVars, genVars,
                    dataVars, connVars >>

\* line 117: the id map file is written and the run ends
BuildWriteIdMap ==
    /\ b_pc = "index_written"
    /\ file_id_map' = Some([ run |-> b_run, ids |-> chunk_ids_of(b_rows) ])
    /\ b_pc' = "done"
    /\ UNCHANGED << batch_size, b_run, b_rows, b_embeddings, b_error, file_index >>
    /\ UNCHANGED << encode_fn, cacheVars, store_queries, q_query, q_calls,
                    q_disk_run >>
    /\ UNCHANGED << chunkVars, filterVars, threadVars, envVars, callVars, genVars,
                    dataVars, connVars >>

\* the build process is interrupted (killed, or a write fails) while it
\* encodes or between its two file writes
BuildInterrupted ==
    /\ BuildRunning
    /\ b_pc' = "killed"
    /\ UNCHANGED << batch_size, b_run, b_rows, b_embeddings, b_error, fileVars >>
    /\ UNCHANGED << encode_fn, cacheVars, store_queries, q_query, q_calls,
                    q_disk_run >>
    /\ UNCHANGED << chunkVars, filterVars, threadVars, envVars, callVars, genVars,
                    dataVars, connVars >>

\* ------------------------------------------------------------------------
\* vectorstore.py: _load_index, load_embedder and search from the files
\* ------------------------------------------------------------------------
\* the two errors _load_index can end in: its own FileNotFoundError, and the
\* one np.load raises when chunk_ids.npy is missing
IndexNotBuilt ==
    "FileNotFoundError: Vector index not found. Run: python -m src.vectorstore --build"
IdMapMissing == "FileNotFoundError: chunk_ids.npy"

\* faiss.read_index / np.load: a new object holding what the file holds
read_index(obj) ==
    Some([ run |-> ValueOf(file_index).run,
           vectors |-> ValueOf(file_index).vectors, obj |-> obj ])
np_load(obj) ==
    Some([ run |-> ValueOf(file_id_map).run,
           ids |-> ValueOf(file_id_map).ids, obj |-> obj ])

\* _load_index that reads the files on every call
load_index_reload ==
    IF file_index = None
    THEN [ index |-> cache_index, id_map |-> cache_chunk_id_map,
           reads |-> file_reads, raised |-> Some(IndexNotBuilt) ]
    ELSE IF file_id_map = None
    THEN [ index |-> read_index(file_reads + 1), id_map |-> cache_chunk_id_map,
           reads |-> file_reads + 1, raised |-> Some(IdMapMissing) ]
    ELSE [ index |-> read_index(file_reads + 1), id_map |-> np_load(file_reads + 2),
           reads |-> file_reads + 2, raised |-> None ]

\* _load_index(): each cache is filled from its file only while it is None;
\* the existence test covers the index file alone.
load_index ==
    IF cache_index = None /\ file_index = None
    THEN [ index |-> cache_index, id_map |-> cache_chunk_id_map,
           reads |-> file_reads, raised |-> Some(IndexNotBuilt) ]
    ELSE LET index == IF cache_index = None THEN read_index(file_reads + 1)
                      ELSE cache_index
             reads == IF cache_index = None THEN file_reads + 1 ELSE file_reads
         IN  IF cache_chunk_id_map = None /\ file_id_map = None
             THEN [ index |-> index, id_map |-> cache_chunk_id_map,
                    reads |-> reads, raised |-> Some(IdMapMissing) ]
             ELSE IF cache_chunk_id_map = None
             THEN [ index |-> index, id_map |-> np_load(reads + 1),
                    reads |-> reads + 1, raised |-> None ]
             ELSE [ index |-> index, id_map |-> cache_chunk_id_map,
                    reads |-> reads, raised |-> None ]

\* load_embedder(): the model is constructed only while _embedder is None
load_embedder ==
    IF cache_embedder = None
    THEN [ embedder |-> Some([ obj |-> embedders_built + 1 ]),
           built |-> embedders_built + 1 ]
    ELSE [ embedder |-> cache_embedder, built |-> embedders_built ]

\* the first two lines of search in the other order
search_entry_embedderFirst ==
    [ loaded |-> load_index, model |-> load_embedder ]

\* search lines 150-151: index, id_map = _load_index(); embedder =
\* load_embedder().  The second line is not reached when the first raises.
search_entry ==
    [ loaded |-> load_index,
      model |-> IF load_index.raised = None THEN load_embedder
                ELSE [ embedder |-> cache_embedder, built |-> embedders_built ] ]

\* inner product that reports the same score for every row
Similarity_flat(u, v) == 1

\* the inner product of two unit vectors: largest when they are equal
Similarity(u, v) == IF u = v THEN 2 ELSE 1

\* index.search: the rows by non-increasing score; rows of equal score come
\* in either order
Rankings(query_vec, vectors) ==
    { r \in RowOrders(Len(vectors)) :
        \A i, j \in 1..Len(vectors) :
            i < j => Similarity(query_vec, vectors[r[i] + 1])
                        >= Similarity(query_vec, vectors[r[j] + 1]) }

\* the top_k values tried against the files
IndexTopKs == { 1, MaxCorpus }

\* search lines 150-160 in a process that may not have loaded the artifact:
\* the caches are filled, and unless that raised the engine ranks the rows
\* of the loaded index for the query.
SearchEntry(query) ==
    /\ cache_index' = search_entry.loaded.index
    /\ cache_chunk_id_map' = search_entry.loaded.id_map
    /\ file_reads' = search_entry.loaded.reads
    /\ cache_embedder' = search_entry.model.embedder
    /\ embedders_built' = search_entry.model.built
    /\ UNCHANGED << MAX_CONTEXT_CHUNKS, store >>
    /\ IF search_entry.loaded.raised # None
       THEN UNCHANGED << index_ranking, index_scores, id_map >>
       ELSE LET vectors == ValueOf(search_entry.loaded.index).vectors
                query_vec == encode(<< query >>)[1]
            IN  /\ \E r \in Rankings(query_vec, vectors) :
                      /\ index_ranking' = r
                      /\ index_scores' = [ j \in 1..Len(vectors) |->
                                            Similarity(query_vec, vectors[r[j] + 1]) ]
                /\ id_map' = ValueOf(search_entry.loaded.id_map).ids

\* 1 when search goes on to its SQL query, 0 when found_ids is empty
sql_queries(k) == IF found_ids(index_search(k)) # << >> THEN 1 ELSE 0

\* search lines 163-190 once the artifact is loaded: with found_ids empty
\* search returns before it opens a connection; otherwise the metadata is
\* read from the store
SearchStore(k) ==
    IF search_entry.loaded.raised # None \/ sql_queries(k)' = 0
    THEN UNCHANGED << store_queries, connVars >>
    ELSE /\ store_queries' = store_queries + 1
         /\ db_file' = store_read(db_file).file
         /\ open_conns' = open_conns + store_read(db_file).left_open

\* the exception that leaves search: that of _load_index, or that of the
\* SELECT
SearchRaised(k) ==
    IF search_entry.loaded.raised # None THEN search_entry.loaded.raised
    ELSE IF sql_queries(k)' = 0 THEN None
    ELSE store_read(db_file).raised

\* the build run that wrote the index file now on disk
disk_run == IF file_index = None THEN None ELSE Some(ValueOf(file_index).run)

\* search(query, top_k) called directly, between build runs
SearchFromFiles ==
    /\ b_pc # "off"
    /\ ~BuildRunning
    /\ q_calls < MaxCalls
    /\ q_calls' = q_calls + 1
    /\ q_disk_run' = disk_run
    /\ \E query \in TextPool, top_k \in IndexTopKs :
          /\ q_query' = query
          /\ q_top_k' = top_k
          /\ q_search_k' = top_k
          /\ SearchEntry(query)
          /\ SearchStore(top_k)
          /\ q_raised' = SearchRaised(top_k)
          /\ q_retrieved' = IF SearchRaised(top_k) # None THEN << >>
                            ELSE search(top_k)'
    /\ q_op' = "search"
    /\ q_courts' = None
    /\ q_start_date' = None
    /\ q_end_date' = None
    /\ q_filtered' = << >>
    /\ q_context' = << >>
    /\ q_prompt' = << >>
    /\ q_chunks' = << >>
    /\ q_answer' = None
    /\ UNCHANGED << chunkVars, filterVars, threadVars, genVars, encode_fn, buildVars,
                    fileVars, dataVars >>

\* run_query(question, top_k) of src/src/pipeline.py, between build runs:
\* an exception of search leaves run_query at line 96
RunQueryFromFiles ==
    /\ b_pc # "off"
    /\ ~BuildRunning
    /\ q_calls < MaxCalls
    /\ q_calls' = q_calls + 1
    /\ q_disk_run' = disk_run
    /\ \E query \in TextPool, top_k \in IndexTopKs :
          LET k == Max(top_k, MAX_CONTEXT_CHUNKS * 2)
          IN  /\ q_query' = query
              /\ q_search_k' = k
              /\ SearchEntry(query)
              /\ SearchStore(k)
              /\ IF SearchRaised(k) # None
                 THEN /\ RunQueryArgs(top_k, None, None, None)
                      /\ q_raised' = SearchRaised(k)
                      /\ q_retrieved' = << >>
                      /\ q_filtered' = << >>
                      /\ q_context' = << >>
                      /\ q_prompt' = << >>
                      /\ q_chunks' = << >>
                      /\ q_answer' = None
                      /\ UNCHANGED gen_calls
                 ELSE run_query_body(search(k)', top_k, None, None, None)
    /\ q_op' = "run_query"
    /\ UNCHANGED << chunkVars, filterVars, threadVars, ollama, encode_fn, buildVars,
                    fileVars, dataVars >>

\* The chunk rows of the corpus: chunk k with one of the pool's texts
CorpusRow(k, t) == [ text |-> t, court |-> CourtOfChunk(k),
                     decision_date |-> DateOfChunk(k) ]

\* The artifact pair an earlier build (run 0) left, over a one-chunk corpus
PriorIndex(f) == [ run |-> 0, vectors |-> << f["ta"] >> ]
PriorIdMap == [ run |-> 0, ids |-> << 1 >> ]

\* A corpus of chunks (its size from sizes), an embedding model, a batch
\* size, the artifact directory empty or (when priors allows) holding the
\* pair of an earlier build, and a querying process that has loaded nothing;
\* runs and calls are the build runs and the calls counted as made before.
IndexInit(sizes, embedders, batches, priors, runs, calls) ==
    /\ \E n \in sizes : \E t \in [1..n -> TextPool] :
          store = [ k \in 1..n |-> CorpusRow(k, t[k]) ]
    /\ encode_fn \in embedders
    /\ batch_size \in batches
    /\ \/ file_index = None /\ file_id_map = None
       \/ /\ TRUE \in priors
          /\ file_index = Some(PriorIndex(encode_fn))
          /\ file_id_map = Some(PriorIdMap)
    /\ b_run = runs
    /\ b_pc = "idle"
    /\ b_rows = << >>
    /\ b_embeddings = << >>
    /\ b_error = None
    /\ cache_index = None
    /\ cache_chunk_id_map = None
    /\ cache_embedder = None
    /\ file_reads = 0
    /\ embedders_built = 0
    /\ store_queries = 0
    /\ q_calls = calls
    /\ q_disk_run = None
    /\ q_query = ""
    /\ MAX_CONTEXT_CHUNKS = 1
    /\ index_ranking = << >>
    /\ index_scores = << >>
    /\ id_map = << >>
    /\ ollama = "ok"
    /\ gen_calls = << >>
    /\ q_op = "idle"
    /\ q_top_k = 0
    /\ q_courts = None
    /\ q_start_date = None
    /\ q_end_date = None
    /\ q_search_k = 0
    /\ q_retrieved = << >>
    /\ q_filtered = << >>
    /\ q_context = << >>
    /\ q_prompt = << >>
    /\ q_chunks = << >>
    /\ q_answer = None
    /\ q_raised = None

\* the artifact and the caches of a behaviour that does not use them
IndexIdle ==
    /\ encode_fn = << >>
    /\ batch_size = 1
    /\ file_index = None
    /\ file_id_map = None
    /\ b_run = 0
    /\ b_pc = "off"
    /\ b_rows = << >>
    /\ b_embeddings = << >>
    /\ b_error = None
    /\ cache_index = None
    /\ cache_chunk_id_map = None
    /\ cache_embedder = None
    /\ file_reads = 0
    /\ embedders_built = 0
    /\ store_queries = 0
    /\ q_calls = 0
    /\ q_disk_run = None
    /\ q_query = ""

\* ------------------------------------------------------------------------
\* vectorstore.py: _load_index and load_embedder, statement by statement,
\* in the threads of one process
\* ------------------------------------------------------------------------
Threads == 1..MaxThreads

\* thread t moves from one statement to the next; nothing but the caches
\* and the thread's own locals can change with it
Goto(t, from, to) ==
    /\ t_pc[t] = from
    /\ t_pc' = [ t_pc EXCEPT ![t] = to ]
    /\ UNCHANGED << encode_fn, buildVars, fileVars, store_queries, q_query,
                    q_calls, q_disk_run >>
    /\ UNCHANGED << chunkVars, filterVars, envVars, callVars, genVars,
                    dataVars, connVars >>

\* line 126, `if _index is None` (the index file exists)
TestIndex(t) ==
    /\ \/ cache_index = None /\ Goto(t, "test_index", "read_index")
       \/ cache_index # None /\ Goto(t, "test_index", "test_id_map")
    /\ UNCHANGED << t_index, t_id_map, t_embedder, cacheVars >>

\* line 131, _index = faiss.read_index(...)
ReadIndex(t) ==
    /\ Goto(t, "read_index", "test_id_map")
    /\ cache_index' = read_index(file_reads + 1)
    /\ file_reads' = file_reads + 1
    /\ UNCHANGED << t_index, t_id_map, t_embedder, cache_chunk_id_map,
                    cache_embedder, embedders_built >>

\* line 133, `if _chunk_id_map is None`
TestIdMap(t) ==
    /\ \/ cache_chunk_id_map = None /\ Goto(t, "test_id_map", "read_id_map")
       \/ cache_chunk_id_map # None /\ Goto(t, "test_id_map", "return_index")
    /\ UNCHANGED << t_index, t_id_map, t_embedder, cacheVars >>

\* line 134, _chunk_id_map = np.load(...)
ReadIdMap(t) ==
    /\ Goto(t, "read_id_map", "return_index")
    /\ cache_chunk_id_map' = np_load(file_reads + 1)
    /\ file_reads' = file_reads + 1
    /\ UNCHANGED << t_index, t_id_map, t_embedder, cache_index,
                    cache_embedder, embedders_built >>

\* line 136, return _index, _chunk_id_map
ReturnIndex(t) ==
    /\ Goto(t, "return_index", "test_embedder")
    /\ t_index' = [ t_index EXCEPT ![t] = cache_index ]
    /\ t_id_map' = [ t_id_map EXCEPT ![t] = cache_chunk_id_map ]
    /\ UNCHANGED << t_embedder, cacheVars >>

\* line 54, `if _embedder is None`
TestEmbedder(t) ==
    /\ \/ cache_embedder = None /\ Goto(t, "test_embedder", "construct")
       \/ cache_embedder # None /\ Goto(t, "test_embedder", "return_embedder")
    /\ UNCHANGED << t_index, t_id_map, t_embedder, cacheVars >>

\* lines 55-63, _embedder = SentenceTransformer(...)
ConstructEmbedder(t) ==
    /\ Goto(t, "construct", "return_embedder")
    /\ cache_embedder' = Some([ obj |-> embedders_built + 1 ])
    /\ embedders_built' = embedders_built + 1
    /\ UNCHANGED << t_index, t_id_map, t_embedder, cache_index,
                    cache_chunk_id_map, file_reads >>

\* line 65, return _embedder
ReturnEmbedder(t) ==
    /\ Goto(t, "return_embedder", "done")
    /\ t_embedder' = [ t_embedder EXCEPT ![t] = cache_embedder ]
    /\ UNCHANGED << t_index, t_id_map, cacheVars >>

\* A process whose threads all enter search for the first time, with the
\* artifact pair of one build on disk and nothing loaded.
ThreadInit ==
    /\ t_pc = [ t \in Threads |-> "test_index" ]
    /\ t_index = [ t \in Threads |-> None ]
    /\ t_id_map = [ t \in Threads |-> None ]
    /\ t_embedder = [ t \in Threads |-> None ]
    /\ encode_fn \in Embedders
    /\ file_index = Some(PriorIndex(encode_fn))
    /\ file_id_map = Some(PriorIdMap)
    /\ batch_size = 1
    /\ b_run = 0
    /\ b_pc = "off"
    /\ b_rows = << >>
    /\ b_embeddings = << >>
    /\ b_error = None
    /\ cache_index = None
    /\ cache_chunk_id_map = None
    /\ cache_embedder = None
    /\ file_reads = 0
    /\ embedders_built = 0
    /\ store_queries = 0
    /\ q_calls = 0
    /\ q_disk_run = None
    /\ q_query = ""

\* no thread is modelled
ThreadIdle ==
    /\ t_pc = << >>
    /\ t_index = << >>
    /\ t_id_map = << >>
    /\ t_embedder = << >>

\* A process with a loaded index whose engine ranks the rows in row order, a
\* matching id map, a store in which chunk 1 or 2 may have lost its row, and
\* the generation service in any of its states.
GenInit ==
    /\ MAX_CONTEXT_CHUNKS \in 1..MaxBudget
    /\ \E n \in 1..MaxRows :
          /\ index_ranking = [ i \in 1..n |-> i - 1 ]
          /\ index_scores \in NonIncreasing(n)
          /\ id_map = [ i \in 1..n |-> i ]
    /\ \E missing \in { 0, 1, 2 } :
          store = [ k \in (1..MaxRows) \ { missing } |-> StoreRow(k) ]
    /\ ollama \in ServiceStates
    /\ gen_calls = << >>
    /\ q_op = "idle"
    /\ q_top_k = 0
    /\ q_courts = None
    /\ q_start_date = None
    /\ q_end_date = None
    /\ q_search_k = 0
    /\ q_retrieved = << >>
    /\ q_filtered = << >>
    /\ q_context = << >>
    /\ q_prompt = << >>
    /\ q_chunks = << >>
    /\ q_answer = None
    /\ q_raised = None

QueryIdle ==
    /\ MAX_CONTEXT_CHUNKS = 1
    /\ index_ranking = << >>
    /\ index_scores = << >>
    /\ id_map = << >>
    /\ store = << >>
    /\ q_op = "off"
    /\ q_top_k = 0
    /\ q_courts = None
    /\ q_start_date = None
    /\ q_end_date = None
    /\ q_search_k = 0
    /\ q_retrieved = << >>
    /\ q_filtered = << >>
    /\ q_context = << >>
    /\ q_prompt = << >>
    /\ q_chunks = << >>
    /\ q_answer = None
    /\ q_raised = None
    /\ ollama = "ok"
    /\ gen_calls = << >>

FilterIdle ==
    /\ f_results = << >>
    /\ f_courts = None
    /\ f_start_date = None
    /\ f_end_date = None
    /\ f_filtered = << >>
    /\ f_pc = "idle"

FilterOff ==
    /\ f_results = << >>
    /\ f_courts = None
    /\ f_start_date = None
    /\ f_end_date = None
    /\ f_filtered = << >>
    /\ f_pc = "off"

ChunkIdle ==
    /\ CHUNK_TARGET_TOKENS = 2
    /\ CHUNK_MAX_TOKENS = 3
    /\ CHUNK_OVERLAP = 1
    /\ text = << >>
    /\ sentences = << >>
    /\ sentence_i = 1
    /\ current_tokens = << >>
    /\ current_length = 0
    /\ chunks = << >>
    /\ chunk_result = << >>
    /\ chunk_pc = "idle"

\* ------------------------------------------------------------------------
\* database.py: the tables and insert_chunks
\* ------------------------------------------------------------------------
\* the case_id values of the rows of cases
case_ids(cases) == { cases[i].case_id : i \in 1..Len(cases) }

\* case_exists that never finds the case
case_exists_never(cases, case_id) == FALSE

\* case_exists(conn, case_id): SELECT 1 FROM cases WHERE case_id = ? LIMIT 1
case_exists(cases, case_id) == case_id \in case_ids(cases)

\* insert_case(conn, case_id, ...): INSERT OR REPLACE INTO cases.  A row
\* with the same case_id (PRIMARY KEY) is deleted first, and with
\* foreign_keys = ON that delete cascades to the opinions and chunks of
\* the case; the new row is added at the end.
insert_case(db, row) ==
    [ cases |-> SelectSeq(db.cases, LAMBDA r : r.case_id # row.case_id) \o << row >>,
      opinions |-> IF case_exists(db.cases, row.case_id)
                   THEN SelectSeq(db.opinions, LAMBDA r : r.case_id # row.case_id)
                   ELSE db.opinions,
      seq |-> db.seq,
      chunks |-> IF case_exists(db.cases, row.case_id)
                 THEN SelectSeq(db.chunks, LAMBDA r : r.case_id # row.case_id)
                 ELSE db.chunks ]

\* insert_opinions(conn, case_id, opinions): one INSERT per (opinion_type,
\* text) pair; opinion_id is AUTOINCREMENT, one more than the largest id
\* ever given
insert_opinions(db, case_id, opinions) ==
    [ cases |-> db.cases,
      opinions |-> db.opinions \o
                   [ i \in 1..Len(opinions) |->
                       [ opinion_id |-> db.seq + i, case_id |-> case_id,
                         opinion_type |-> opinions[i][1], text |-> opinions[i][2] ] ],
      seq |-> db.seq + Len(opinions),
      chunks |-> db.chunks ]

\* INSERT OR IGNORE: a row whose chunk_id exists is left as it is
replace_chunk_ignore(table, row) ==
    IF \E i \in 1..Len(table) : table[i].chunk_id = row.chunk_id THEN table
    ELSE Append(table, row)

\* INSERT OR REPLACE INTO chunks for one row: a row with the same chunk_id
\* (PRIMARY KEY) is deleted, the new row is added at the end
replace_chunk(table, row) ==
    SelectSeq(table, LAMBDA r : r.chunk_id # row.chunk_id) \o << row >>

ForeignKeyFailed == "IntegrityError: FOREIGN KEY constraint failed"

\* conn.executemany(INSERT OR REPLACE INTO chunks ..., rows): row after row;
\* a row whose case_id has no row in cases ends it in IntegrityError
RECURSIVE executemany_chunks(_, _, _)
executemany_chunks(table, cases, rows) ==
    IF rows = << >> THEN [ table |-> table, raised |-> None ]
    ELSE IF ~case_exists(cases, Head(rows).case_id)
    THEN [ table |-> table, raised |-> Some(ForeignKeyFailed) ]
    ELSE executemany_chunks(replace_chunk(table, Head(rows)), cases, Tail(rows))

\* insert_chunks(conn, rows): executemany, then conn.commit().  table is
\* what the database holds afterwards; when executemany raised, commit is
\* not reached and what that statement inserted is rolled back when the
\* connection goes (no caller catches the exception).
insert_chunks(table, cases, rows) ==
    LET done == executemany_chunks(table, cases, rows)
    IN  IF done.raised = None THEN done
        ELSE [ table |-> table, raised |-> done.raised ]

\* the database as one value
db_now == [ cases |-> db_cases, opinions |-> db_opinions, seq |-> db_seq,
            chunks |-> db_chunks ]

\* the rows tried: two chunk ids, a case that exists ("A") and one that
\* does not ("Z"), two texts
ChunkIds == { "c1", "c2" }
ChunkRow(id, case, txt) ==
    [ chunk_id |-> id, case_id |-> case, opinion_type |-> "majority",
      position |-> IF txt = "ta" THEN 0 ELSE 1, text |-> txt,
      token_count |-> IF txt = "ta" THEN 1 ELSE 2 ]
InsertRows == { ChunkRow(id, case, txt) :
                  id \in ChunkIds, case \in { "A", "Z" }, txt \in TextPool }

DistinctIds(table) ==
    \A i, j \in 1..Len(table) : i # j => table[i].chunk_id # table[j].chunk_id

CaseRow(id, meta) == [ case_id |-> id, meta |-> meta ]

\* a database with case A and a chunks table of up to two rows of case A
InsertInit ==
    /\ db_cases = << CaseRow("A", "m1") >>
    /\ db_opinions = << >>
    /\ db_seq = 0
    /\ db_chunks \in { t \in SeqsUpTo({ r \in InsertRows : r.case_id = "A" },
                                      Cardinality(ChunkIds)) : DistinctIds(t) }
    /\ ic_pc = "idle"
    /\ ic_rows = << >>
    /\ ic_before = << >>
    /\ ic_raised = None

\* one call insert_chunks(conn, rows) on a fresh connection
InsertChunksCall ==
    /\ ic_pc = "idle"
    /\ \E rows \in SeqsUpTo(InsertRows, MaxInsertRows) :
          /\ ic_rows' = rows
          /\ db_chunks' = insert_chunks(db_chunks, db_cases, rows).table
          /\ ic_raised' = insert_chunks(db_chunks, db_cases, rows).raised
    /\ ic_before' = db_chunks
    /\ ic_pc' = "done"
    /\ UNCHANGED << db_cases, db_opinions, db_seq >>
    /\ UNCHANGED << chunkVars, filterVars, queryVars, ingestVars, processVars,
                    downloadVars, connVars >>

InsertIdle ==
    /\ ic_pc = "off"
    /\ ic_rows = << >>
    /\ ic_before = << >>
    /\ ic_raised = None

\* ------------------------------------------------------------------------
\* ingestion.py
\* ------------------------------------------------------------------------
\* A raw opinion text is a sequence of characters: the letter "x", "<", ">"
\* and the whitespace character.
\* the index of the first ">" after the first character of t, 0 if none
tag_end(t) ==
    LET ends == { j \in 2..Len(t) : t[j] = ">" }
    IN  IF ends = { } THEN 0 ELSE CHOOSE j \in ends : \A k \in ends : j <= k

\* HTML_TAG_PATTERN.sub(" ", text) with the pattern <[^>]+> : from the left,
\* a "<" followed by at least one character other than ">" and then ">" is
\* replaced by one space
RECURSIVE HTML_TAG_PATTERN_sub(_)
HTML_TAG_PATTERN_sub(t) ==
    IF t = << >> THEN << >>
    ELSE IF Head(t) = "<" /\ tag_end(t) >= 3
    THEN << Space >> \o HTML_TAG_PATTERN_sub(SubSeq(t, tag_end(t) + 1, Len(t)))
    ELSE << Head(t) >> \o HTML_TAG_PATTERN_sub(Tail(t))

\* MULTI_SPACE_PATTERN.sub(" ", text) with the pattern \s+ : every run of
\* whitespace becomes one space
RECURSIVE MULTI_SPACE_PATTERN_sub(_)
MULTI_SPACE_PATTERN_sub(t) ==
    IF t = << >> THEN << >>
    ELSE IF Head(t) = Space THEN << Space >> \o MULTI_SPACE_PATTERN_sub(LStrip(t))
    ELSE << Head(t) >> \o MULTI_SPACE_PATTERN_sub(Tail(t))

\* clean_text(text)
clean_text(t) == Strip(MULTI_SPACE_PATTERN_sub(HTML_TAG_PATTERN_sub(t)))

\* x or default, for an Optional name x (None and "" are false)
OrElse(o, default) == IF o = None \/ ValueOf(o) = "" THEN default ELSE ValueOf(o)

\* opinion.get("type") or "unknown"
OrUnknown(o) == OrElse(o, "unknown")

\* extract_opinions with the length test made on the text before clean_text
extract_opinions_rawLength(opinions) ==
    LET kept == SelectSeq(opinions, LAMBDA o :
                    Len(OrEmpty(o.text)) >= MIN_OPINION_LENGTH)
    IN  [ i \in 1..Len(kept) |->
            << OrUnknown(kept[i].type), clean_text(OrEmpty(kept[i].text)) >> ]

\* extract_opinions(case_data) on the list case_data["casebody"]["opinions"]:
\* (opinion_type, cleaned text) of every opinion whose cleaned text has at
\* least MIN_OPINION_LENGTH characters
extract_opinions(opinions) ==
    LET kept == SelectSeq(opinions, LAMBDA o :
                    Len(clean_text(OrEmpty(o.text))) >= MIN_OPINION_LENGTH)
    IN  [ i \in 1..Len(kept) |->
            << OrUnknown(kept[i].type), clean_text(OrEmpty(kept[i].text)) >> ]

\* The opinions of the case files tried: cleaned length 3; a tag before one
\* letter (4 characters, cleaned length 1); two letters around a run of
\* whitespace (cleaned length 3); no text; cleaned length 2.
RawOpinion(type, txt) == [ type |-> type, text |-> txt ]
OpLong == RawOpinion(Some("majority"), Some(<< "x", "x", "x" >>))
OpTagged == RawOpinion(None, Some(<< "<", "x", ">", "x" >>))
OpSpaced == RawOpinion(Some("dissent"), Some(<< "x", Space, Space, "x" >>))
OpNoText == RawOpinion(Some("majority"), None)
OpTwo == RawOpinion(Some("majority"), Some(<< "x", "x" >>))

\* A case file: its name without .json, whether json.load can parse it, the
\* "id" of the JSON object, the case fields ingest_cases reads (name,
\* citation, court, jurisdiction, decision_date) as one value, and the list
\* casebody.opinions.
CaseFile(stem, parses, id, meta, opinions) ==
    [ stem |-> stem, parses |-> parses, id |-> id, meta |-> meta,
      opinions |-> opinions ]

\* The files tried: two files of case A with different content, a case
\* named by its file, a case whose only opinion is too short once cleaned,
\* a case without opinions, and a file that is not JSON.
FilePool ==
    { CaseFile("f1", TRUE, Some("A"), "m1", << OpLong, OpTagged >>),
      CaseFile("f2", TRUE, Some("A"), "m2", << OpSpaced >>),
      CaseFile("B", TRUE, None, "m3", << OpTwo, OpNoText >>),
      CaseFile("C", TRUE, None, "m4", << OpTagged >>),
      CaseFile("D", TRUE, Some("D"), "m5", << >>),
      CaseFile("bad", FALSE, None, "", << >>) }

NoRepeat(s) == \A i, j \in 1..Len(s) : i # j => s[i] # s[j]

JsonError == "JSONDecodeError"

IngestRunning == ing_pc = "loop"

\* what a run of ingest_cases left: the files it ran over and the database
IngestLeft == [ files |-> raw_files, db |-> db_now ]

\* a file is saved into the raw data directory between two runs
FileAdded ==
    /\ ing_pc \in { "idle", "done", "failed" }
    /\ Len(raw_files) < MaxFiles
    /\ \E f \in FilePool :
          /\ \A i \in 1..Len(raw_files) : raw_files[i] # f
          /\ raw_files' = Append(raw_files, f)
    /\ UNCHANGED << MIN_OPINION_LENGTH, ing_run, ing_pc, ing_i, ing_error, ing_left >>
    /\ UNCHANGED << chunkVars, filterVars, queryVars, dbVars, insertVars,
                    processVars, downloadVars, connVars >>

\* ingest_cases lines 85-94: the connection is opened, init_db creates the
\* tables that do not exist, the files are listed
IngestStart ==
    /\ ing_pc \in { "idle", "done", "failed" }
    /\ ing_run < MaxRuns
    /\ ing_run' = ing_run + 1
    /\ ing_i' = 1
    /\ ing_error' = None
    /\ ing_pc' = "loop"
    /\ UNCHANGED << MIN_OPINION_LENGTH, raw_files, ing_left >>
    /\ UNCHANGED << chunkVars, filterVars, queryVars, dbVars, insertVars,
                    processVars, downloadVars, connVars >>

\* what one pass of `for path in files` (lines 96-131) does to the database
ingest_file(db, file) ==
    LET case_id == OrElse(file.id, file.stem)
        opinions == extract_opinions(file.opinions)
    IN  IF case_exists(db.cases, case_id) THEN db
        ELSE IF opinions = << >> THEN db
        ELSE insert_opinions(insert_case(db, CaseRow(case_id, file.meta)),
                             case_id, opinions)

\* One pass of the loop.  json.load raises on a file that is not JSON and
\* the run ends there; insert_case, insert_opinions and conn.commit() are
\* one transaction.
IngestFile ==
    /\ IngestRunning
    /\ ing_i <= Len(raw_files)
    /\ IF ~raw_files[ing_i].parses
       THEN /\ ing_error' = Some(JsonError)
            /\ ing_pc' = "failed"
            /\ ing_left' = Append(ing_left, IngestLeft)
            /\ UNCHANGED << ing_i, dbVars >>
       ELSE /\ db_cases' = ingest_file(db_now, raw_files[ing_i]).cases
            /\ db_opinions' = ingest_file(db_now, raw_files[ing_i]).opinions
            /\ db_seq' = ingest_file(db_now, raw_files[ing_i]).seq
            /\ db_chunks' = ingest_file(db_now, raw_files[ing_i]).chunks
            /\ ing_i' = ing_i + 1
            /\ UNCHANGED << ing_error, ing_pc, ing_left >>
    /\ UNCHANGED << MIN_OPINION_LENGTH, raw_files, ing_run >>
    /\ UNCHANGED << chunkVars, filterVars, queryVars, insertVars, processVars,
                    downloadVars, connVars >>

\* lines 136-139: the connection is closed, the run returns
IngestFinish ==
    /\ IngestRunning
    /\ ing_i > Len(raw_files)
    /\ ing_pc' = "done"
    /\ ing_left' = Append(ing_left, IngestLeft)
    /\ UNCHANGED << MIN_OPINION_LENGTH, raw_files, ing_run, ing_i, ing_error >>
    /\ UNCHANGED << chunkVars, filterVars, queryVars, dbVars, insertVars,
                    processVars, downloadVars, connVars >>

\* an empty database and a raw data directory of up to MaxFiles files
IngestInit ==
    /\ MIN_OPINION_LENGTH \in { 2, 3 }
    /\ raw_files \in { s \in SeqsUpTo(FilePool, MaxFiles) : NoRepeat(s) }
    /\ ing_run = 0
    /\ ing_pc = "idle"
    /\ ing_i = 1
    /\ ing_error = None
    /\ ing_left = << >>
    /\ db_cases = << >>
    /\ db_opinions = << >>
    /\ db_seq = 0
    /\ db_chunks = << >>

IngestIdle ==
    /\ MIN_OPINION_LENGTH = 2
    /\ raw_files = << >>
    /\ ing_run = 0
    /\ ing_pc = "off"
    /\ ing_i = 1
    /\ ing_error = None
    /\ ing_left = << >>

DbEmpty ==
    /\ db_cases = << >>
    /\ db_opinions = << >>
    /\ db_seq = 0
    /\ db_chunks = << >>

\* ------------------------------------------------------------------------
\* preprocessing.py: process_opinions
\* ------------------------------------------------------------------------
\* the loop of chunk_text from sentence i on, with the buffer cur
\* (current_length is len(current_tokens) throughout) and the chunks chs
RECURSIVE chunk_loop(_, _, _, _)
chunk_loop(sents, i, cur, chs) ==
    IF i > Len(sents)
    THEN SelectSeq(IF cur # << >> THEN Append(chs, Strip(Join(cur))) ELSE chs,
                   LAMBDA c : c # << >>)
    ELSE LET tokens == tokenize(sents[i])
             overMax == Len(cur) + Len(tokens) > CHUNK_MAX_TOKENS /\ cur # << >>
             chs1 == IF overMax THEN Append(chs, Strip(Join(cur))) ELSE chs
             cur1 == IF overMax
                     THEN NegSlice(tokenize(Join(cur)), CHUNK_OVERLAP) \o tokens
                     ELSE cur \o tokens
         IN  IF Len(cur1) >= CHUNK_TARGET_TOKENS
             THEN chunk_loop(sents, i + 1, NegSlice(cur1, CHUNK_OVERLAP),
                             Append(chs1, Strip(Join(cur1))))
             ELSE chunk_loop(sents, i + 1, cur1, chs1)

\* chunk_text(text) as a function of the text
chunk_text(t) == chunk_loop(SENTENCE_PATTERN_split(t), 1, << >>, << >>)

\* the 1000 of `if len(rows_to_insert) > 1000`, scaled down
PendingRowsLimit == 1

\* uuid.uuid4().hex[:8]: eight hexadecimal digits, drawn anew on every call
UuidPool == { "u1", "u2" }

\* f"{case_id}-{opinion_id}-{uuid.uuid4().hex[:8]}"
chunk_id_of(case_id, opinion_id, u) == << case_id, opinion_id, u >>

\* lines 101-106: the rows of one opinion, chunk idx with the identifier
\* made from us[idx + 1]
opinion_rows(o, us) ==
    LET cs == chunk_text(o.text)
    IN  [ k \in 1..Len(cs) |->
            [ chunk_id |-> chunk_id_of(o.case_id, o.opinion_id, us[k]),
              case_id |-> o.case_id, opinion_type |-> o.opinion_type,
              position |-> k - 1, text |-> cs[k],
              token_count |-> Len(tokenize(cs[k])) ] ]

\* cur.fetchall() of SELECT ... FROM opinions JOIN cases
fetch_opinions ==
    SelectSeq(db_opinions, LAMBDA o : case_exists(db_cases, o.case_id))

\* lines 85-96: the connection is opened and the opinions are fetched.
\* UuidPool stands for the 2^32 values of eight hexadecimal digits, so a
\* behaviour is followed to the end of the run in which uuid4 first gave
\* two chunks the same identifier and no further.
ProcessStart ==
    /\ p_pc \in { "idle", "done" }
    /\ p_run < MaxRuns
    /\ ~p_id_clash
    /\ p_run' = p_run + 1
    /\ p_fetched' = fetch_opinions
    /\ p_i' = 1
    /\ rows_to_insert' = << >>
    /\ total_chunks' = 0
    /\ p_pc' = "loop"
    /\ UNCHANGED << p_left, p_id_clash >>
    /\ UNCHANGED << chunkVars, filterVars, queryVars, dbVars, insertVars,
                    ingestVars, downloadVars, connVars >>

\* one pass of `for opinion_id, case_id, opinion_type, text` (lines 98-116):
\* the opinion is chunked, every chunk gets a new identifier, and the
\* pending rows are inserted when there are more than the limit
ProcessOpinion ==
    /\ p_pc = "loop"
    /\ p_i <= Len(p_fetched)
    /\ \E us \in [ 1..Len(chunk_text(p_fetched[p_i].text)) -> UuidPool ] :
          LET pending == rows_to_insert \o opinion_rows(p_fetched[p_i], us)
          IN  /\ p_id_clash' = (p_id_clash \/ ~DistinctIds(db_chunks \o pending))
              /\ IF Len(pending) > PendingRowsLimit
                 THEN /\ db_chunks' = insert_chunks(db_chunks, db_cases, pending).table
                      /\ rows_to_insert' = << >>
                 ELSE /\ rows_to_insert' = pending
                      /\ UNCHANGED db_chunks
    /\ total_chunks' = total_chunks + Len(chunk_text(p_fetched[p_i].text))
    /\ p_i' = p_i + 1
    /\ UNCHANGED << p_run, p_pc, p_fetched, p_left >>
    /\ UNCHANGED << db_cases, db_opinions, db_seq >>
    /\ UNCHANGED << chunkVars, filterVars, queryVars, insertVars, ingestVars,
                    downloadVars, connVars >>

\* lines 118-125: the remaining rows are inserted, the connection is closed
ProcessFinish ==
    /\ p_pc = "loop"
    /\ p_i > Len(p_fetched)
    /\ db_chunks' = IF rows_to_insert # << >>
                    THEN insert_chunks(db_chunks, db_cases, rows_to_insert).table
                    ELSE db_chunks
    /\ p_left' = Append(p_left, db_chunks')
    /\ p_pc' = "done"
    /\ UNCHANGED << p_run, p_fetched, p_i, rows_to_insert, total_chunks, p_id_clash >>
    /\ UNCHANGED << db_cases, db_opinions, db_seq >>
    /\ UNCHANGED << chunkVars, filterVars, queryVars, insertVars, ingestVars,
                    downloadVars, connVars >>

\* the opinion texts tried (with target 2, max 3, overlap 1): one chunk, two
\* chunks, and two sentences
OpinionTexts ==
    { << "a" >>, << "a", Space, "a", Space, "a" >>, << "a", Space, "c.", Space, "B" >> }

\* a database after ingest_cases: case A with up to MaxOpinions opinions,
\* no chunks yet
ProcessInit ==
    /\ db_cases = << CaseRow("A", "m1") >>
    /\ \E n \in 0..MaxOpinions : \E t \in [ 1..n -> OpinionTexts ] :
          /\ db_opinions = [ i \in 1..n |->
                               [ opinion_id |-> i, case_id |-> "A",
                                 opinion_type |-> "majority", text |-> t[i] ] ]
          /\ db_seq = n
    /\ db_chunks = << >>
    /\ p_run = 0
    /\ p_pc = "idle"
    /\ p_fetched = << >>
    /\ p_i = 1
    /\ rows_to_insert = << >>
    /\ total_chunks = 0
    /\ p_left = << >>
    /\ p_id_clash = FALSE

ProcessIdle ==
    /\ p_run = 0
    /\ p_pc = "off"
    /\ p_fetched = << >>
    /\ p_i = 1
    /\ rows_to_insert = << >>
    /\ total_chunks = 0
    /\ p_left = << >>
    /\ p_id_clash = FALSE

\* ------------------------------------------------------------------------
\* scripts/download_courtlistener.py: iter_scotus_opinions
\* ------------------------------------------------------------------------
\* A page of the opinions endpoint: the JSON object of its body with
\* "results" and "next" (TRUE when the page links to a following page).
\* The pages form a chain; the last one has no next link.
Opinions == { "o1", "o2" }
Page(results, next) == [ results |-> results, next |-> next ]

\* data.get("results", []) without its first element
page_results_skipFirst(data) ==
    IF data.results = << >> THEN << >> ELSE Tail(data.results)

\* data.get("results", [])
page_results(data) == data.results

\* `if not data`: None, or a JSON body that is an empty object
Falsy(data) == data = None \/ ValueOf(data) = Page(<< >>, FALSE)

\* the page next_url points at
current_page == dl_pages[dl_page]

\* lines 163-175, one pass of `for attempt in range(1, max_retries + 1)`:
\* the request either succeeds (status 2xx and a JSON body) or ends in an
\* exception.  After a success the loop is left, and an empty body ends the
\* generator; after the last failed attempt the generator returns; after
\* another failed attempt it sleeps and tries again.
DlRequest ==
    /\ dl_pc = "fetch"
    /\ dl_attempt <= dl_max_retries
    /\ dl_requests' = [ dl_requests EXCEPT ![dl_page] = @ + 1 ]
    /\ \/ /\ dl_pc' = IF Falsy(Some(current_page)) THEN "returned" ELSE "results"
          /\ dl_result_i' = 1
          /\ UNCHANGED dl_attempt
       \/ /\ dl_pc' = IF dl_attempt >= dl_max_retries THEN "gave_up" ELSE "fetch"
          /\ dl_attempt' = dl_attempt + 1
          /\ UNCHANGED dl_result_i
    /\ UNCHANGED << dl_pages, dl_max_retries, dl_page, dl_yielded >>
    /\ UNCHANGED << chunkVars, filterVars, queryVars, dbVars, insertVars,
                    ingestVars, processVars, connVars >>

\* the range of the attempt loop is used up with data still None (only
\* when max_retries < 1): `if not data: return`
DlNoAttemptLeft ==
    /\ dl_pc = "fetch"
    /\ dl_attempt > dl_max_retries
    /\ dl_pc' = "returned"
    /\ UNCHANGED << dl_pages, dl_max_retries, dl_page, dl_attempt, dl_result_i,
                    dl_requests, dl_yielded >>
    /\ UNCHANGED << chunkVars, filterVars, queryVars, dbVars, insertVars,
                    ingestVars, processVars, connVars >>

\* lines 180-181: the next opinion of the page is yielded
DlYield ==
    /\ dl_pc = "results"
    /\ dl_result_i <= Len(page_results(current_page))
    /\ dl_yielded' = Append(dl_yielded, page_results(current_page)[dl_result_i])
    /\ dl_result_i' = dl_result_i + 1
    /\ UNCHANGED << dl_pages, dl_max_retries, dl_pc, dl_page, dl_attempt, dl_requests >>
    /\ UNCHANGED << chunkVars, filterVars, queryVars, dbVars, insertVars,
                    ingestVars, processVars, connVars >>

\* lines 183-186 after the last opinion of the page: next_url =
\* data.get("next"), and `while next_url` goes on or ends
DlNextPage ==
    /\ dl_pc = "results"
    /\ dl_result_i > Len(page_results(current_page))
    /\ IF current_page.next
       THEN /\ dl_page' = dl_page + 1
            /\ dl_attempt' = 1
            /\ dl_pc' = "fetch"
       ELSE /\ dl_pc' = "returned"
            /\ UNCHANGED << dl_page, dl_attempt >>
    /\ UNCHANGED << dl_pages, dl_max_retries, dl_result_i, dl_requests, dl_yielded >>
    /\ UNCHANGED << chunkVars, filterVars, queryVars, dbVars, insertVars,
                    ingestVars, processVars, connVars >>

\* the page chains tried: 1..MaxPages pages of up to two opinions each, every
\* page but the last with a next link
PageChains ==
    UNION { { [ i \in 1..n |-> Page(r[i], i < n) ] :
                r \in [ 1..n -> SeqsUpTo(Opinions, Cardinality(Opinions)) ] } :
            n \in 1..MaxPages }

\* iter_scotus_opinions(start_date, max_retries = ...) is called: next_url
\* is the first page
DownloadInit ==
    /\ dl_pages \in PageChains
    /\ dl_max_retries \in 0..MaxRetries
    /\ dl_pc = "fetch"
    /\ dl_page = 1
    /\ dl_attempt = 1
    /\ dl_result_i = 1
    /\ dl_requests = [ i \in 1..Len(dl_pages) |-> 0 ]
    /\ dl_yielded = << >>

DownloadIdle ==
    /\ dl_pages = << >>
    /\ dl_max_retries = 0
    /\ dl_pc = "off"
    /\ dl_page = 1
    /\ dl_attempt = 1
    /\ dl_result_i = 1
    /\ dl_requests = << >>
    /\ dl_yielded = << >>

\* every part of the data path idle
DataIdle == DbEmpty /\ InsertIdle /\ IngestIdle /\ ProcessIdle /\ DownloadIdle

\* ------------------------------------------------------------------------
\* Properties of chunk_text
\* ------------------------------------------------------------------------
ChunkDone == chunk_pc = "done"

\* s without its first n elements
DropFirst(s, n) == SubSeq(s, n + 1, Len(s))

\* Chunk 0 in full, then every later chunk without the tokens carried over
\* from its predecessor: min(CHUNK_OVERLAP, length of the predecessor) of them.
Reconstruct(cs) ==
    IF cs = << >> THEN << >>
    ELSE cs[1] \o Concat([ i \in 1..(Len(cs) - 1) |->
                            DropFirst(cs[i + 1], Min(CHUNK_OVERLAP, Len(cs[i]))) ])

\* the returned chunks, each as its whitespace tokens (chunk.split())
chunk_tokens == [ i \in 1..Len(chunk_result) |-> tokenize(chunk_result[i]) ]

\* s occurs in c as a contiguous run
IsRunOf(s, c) ==
    \E k \in 0..(Len(c) - Len(s)) : SubSeq(c, k + 1, k + Len(s)) = s

\* C1: with the positive overlap the program is configured with, chunk 0 plus
\* the non-carried tokens of every later chunk, in position order, is exactly
\* text.split(): no token is lost, invented or moved.
C1_Reconstruction ==
    (ChunkDone /\ CHUNK_OVERLAP > 0) => Reconstruct(chunk_tokens) = tokenize(text)

\* A finished run with at least three chunks, so that overlap was removed twice.
C1_Witness ==
    ChunkDone /\ CHUNK_OVERLAP > 0 /\ Len(chunk_result) >= 3
    /\ Reconstruct(chunk_tokens) = tokenize(text)

\* the first n and the last n elements of s (all of s when it has fewer)
FirstN(s, n) == [ j \in 1..Min(n, Len(s)) |-> s[j] ]
LastN(s, n) == [ j \in 1..Min(n, Len(s)) |-> s[Len(s) - Min(n, Len(s)) + j] ]

\* the shape of the shipped configuration (80 < 500 < 800)
ShippedShape ==
    0 < CHUNK_OVERLAP /\ CHUNK_OVERLAP < CHUNK_TARGET_TOKENS
    /\ CHUNK_TARGET_TOKENS < CHUNK_MAX_TOKENS

\* C2 as stated: the first CHUNK_OVERLAP tokens of chunk i+1 are the last
\* CHUNK_OVERLAP tokens of chunk i, also when chunk i is shorter than that
\* (stated for configurations of the shipped shape).
C2_Original ==
    (ChunkDone /\ ShippedShape) =>
        \A i \in 1..(Len(chunk_result) - 1) :
            FirstN(chunk_tokens[i + 1], CHUNK_OVERLAP)
                = LastN(chunk_tokens[i], CHUNK_OVERLAP)

\* C2 amended: with m = min(CHUNK_OVERLAP, length of chunk i), the first m
\* tokens of chunk i+1 are the last m tokens of chunk i.
C2_OverlapInvariant ==
    (ChunkDone /\ CHUNK_OVERLAP > 0) =>
        \A i \in 1..(Len(chunk_result) - 1) :
            LET m == Min(CHUNK_OVERLAP, Len(chunk_tokens[i]))
            IN /\ Len(chunk_tokens[i + 1]) >= m
               /\ FirstN(chunk_tokens[i + 1], m) = LastN(chunk_tokens[i], m)

\* A chunk shorter than the overlap is followed by a longer chunk.
C2_Witness ==
    /\ ChunkDone /\ CHUNK_OVERLAP > 0
    /\ \E i \in 1..(Len(chunk_result) - 1) :
          /\ Len(chunk_tokens[i]) < CHUNK_OVERLAP
          /\ Len(chunk_tokens[i + 1]) > Len(chunk_tokens[i])

\* C3: a chunk with more than CHUNK_MAX_TOKENS tokens contains a sentence
\* segment that alone has more than CHUNK_MAX_TOKENS tokens; so when no
\* segment is that long, no chunk is (stated for configurations of the
\* shipped shape).
C3_MaxSize ==
    (ChunkDone /\ ShippedShape) =>
        \A i \in 1..Len(chunk_result) :
            Len(chunk_tokens[i]) > CHUNK_MAX_TOKENS =>
                \E j \in 1..Len(sentences) :
                    /\ Len(tokenize(sentences[j])) > CHUNK_MAX_TOKENS
                    /\ IsRunOf(tokenize(sentences[j]), chunk_tokens[i])

\* the tokens of chunk i + 1 that chunk i handed over: what the code keeps
\* of a flushed buffer with [-CHUNK_OVERLAP:]
CarriedInto(i) == NegSlice(chunk_tokens[i], CHUNK_OVERLAP)

\* C25: with CHUNK_OVERLAP < CHUNK_TARGET_TOKENS every chunk after the first
\* has at least one token of the text that no earlier chunk has: it is longer
\* than the run of tokens carried over from its predecessor.
C25_NewTokenPerChunk ==
    (ChunkDone /\ CHUNK_OVERLAP < CHUNK_TARGET_TOKENS) =>
        \A i \in 1..(Len(chunk_result) - 1) :
            Len(chunk_tokens[i + 1]) > Len(CarriedInto(i))

\* the buffer chunk_text goes on with after one loop iteration when every
\* flush seeds the next buffer with the last min(CHUNK_OVERLAP, length)
\* tokens of the flushed buffer
SeededBuffer ==
    LET tokens == tokenize(sentences[sentence_i])
        overMax == current_length + Len(tokens) > CHUNK_MAX_TOKENS
                   /\ current_tokens # << >>
        cur1 == IF overMax THEN LastN(current_tokens, CHUNK_OVERLAP) \o tokens
                ELSE current_tokens \o tokens
    IN  IF Len(cur1) >= CHUNK_TARGET_TOKENS THEN LastN(cur1, CHUNK_OVERLAP)
        ELSE cur1

\* C26: on every flush the next buffer is seeded with exactly the last
\* min(CHUNK_OVERLAP, length of the flushed buffer) tokens of the flushed
\* buffer, for every CHUNK_OVERLAP >= 0; with CHUNK_OVERLAP = 0 the next
\* buffer starts empty.
C26_FlushSeed ==
    [][ (chunk_pc = "loop" /\ sentence_i <= Len(sentences)
         /\ Len(chunks') > Len(chunks))
        => current_tokens' = SeededBuffer ]_vars

\* ------------------------------------------------------------------------
\* Properties of filter_results
\* ------------------------------------------------------------------------
FilterDone == f_pc = "done"

NotGiven(arg) == arg = None \/ arg = Some(EmptyStr)

StrLeq(a, b) == a = b \/ StrLess(a, b)

\* the date rule of the claim, on a candidate's decision_date field
DateKept(start_date, end_date, field) ==
    \/ field = None
    \/ field = Some(EmptyStr)
    \/ /\ NotGiven(start_date) \/ StrLeq(ValueOf(start_date), ValueOf(field))
       /\ NotGiven(end_date) \/ StrLeq(ValueOf(field), ValueOf(end_date))

\* the court rule of the claim, on a candidate's court field
CourtExact(courts, field) ==
    /\ field # None
    /\ \E i \in 1..Len(courts) : courts[i] = ValueOf(field)

\* C4: a kept candidate always satisfies the date rule (date empty or absent,
\* or start <= date <= end as strings, each bound only when given, both
\* inclusive), and with the court filter off the kept candidates are exactly
\* those satisfying it, in order.
C4_DateFilter ==
    FilterDone =>
        /\ \A i \in 1..Len(f_filtered) :
              DateKept(f_start_date, f_end_date, f_filtered[i].decision_date)
        /\ ~Truthy(f_courts) =>
              f_filtered = SelectSeq(f_results, LAMBDA r :
                              DateKept(f_start_date, f_end_date, r.decision_date))

\* start_date "20": the day before is dropped, the day itself and the empty
\* date are kept; end_date "20": the day itself is kept, the day after dropped.
C4_Witness ==
    /\ FilterDone /\ ~Truthy(f_courts)
    /\ \/ /\ f_start_date = Some(<< 2, 0 >>)
          /\ \E i \in 1..Len(f_results) : f_results[i].decision_date = Some(<< 1, 9 >>)
          /\ \E i \in 1..Len(f_results) : f_results[i].decision_date = Some(<< 2, 0 >>)
          /\ Len(f_filtered) = 1
          /\ f_filtered[1].decision_date = Some(<< 2, 0 >>)
       \/ /\ f_end_date = Some(<< 2, 0 >>)
          /\ \E i \in 1..Len(f_results) : f_results[i].decision_date = Some(<< 2, 1 >>)
          /\ \E i \in 1..Len(f_results) : f_results[i].decision_date = Some(<< 2, 0 >>)
          /\ Len(f_filtered) = 1
          /\ f_filtered[1].decision_date = Some(<< 2, 0 >>)

\* C5: with a non-empty allow-list the kept candidates are exactly those whose
\* court field equals an allow-listed string character for character (and
\* that pass the date rule); with an absent or empty allow-list only the date
\* rule removes candidates.
C5_CourtFilter ==
    FilterDone =>
        IF Truthy(f_courts)
        THEN f_filtered = SelectSeq(f_results, LAMBDA r :
                /\ CourtExact(ValueOf(f_courts), r.court)
                /\ DateKept(f_start_date, f_end_date, r.decision_date))
        ELSE f_filtered = SelectSeq(f_results, LAMBDA r :
                DateKept(f_start_date, f_end_date, r.decision_date))

\* allow-list ["Supreme Court"]: "supreme court" is dropped, "Supreme Court" kept
C5_Witness ==
    /\ FilterDone
    /\ f_courts = Some(<< "Supreme Court" >>)
    /\ \E i \in 1..Len(f_results) : f_results[i].court = Some("supreme court")
    /\ Len(f_filtered) = 1
    /\ f_filtered[1].court = Some("Supreme Court")

\* C6: with courts, start_date and end_date all None the returned list is the
\* argument list.
C6_NoFilterIdentity ==
    (FilterDone /\ f_courts = None /\ f_start_date = None /\ f_end_date = None)
        => f_filtered = f_results

\* an unfiltered call on two distinct candidates, one without court and date
C6_Witness ==
    /\ FilterDone /\ f_courts = None /\ f_start_date = None /\ f_end_date = None
    /\ Len(f_results) = 2
    /\ f_results[1] # f_results[2]
    /\ \E i \in 1..2 : f_results[i].court = None /\ f_results[i].decision_date = None
    /\ \E i \in 1..2 : f_results[i].decision_date = Some(EmptyStr)
    /\ f_filtered = f_results

\* ------------------------------------------------------------------------
\* Properties of search and run_query
\* ------------------------------------------------------------------------
QueryDone == q_op \in { "run_query", "run_query_old" }

\* a is b with some elements deleted
RECURSIVE IsSubseq(_, _)
IsSubseq(a, b) ==
    IF a = << >> THEN TRUE
    ELSE IF b = << >> THEN FALSE
    ELSE IF Head(a) = Head(b) THEN IsSubseq(Tail(a), Tail(b))
    ELSE IsSubseq(a, Tail(b))

\* result r is hit h joined with the store: the chunk id of h's row, h's
\* score, and the text and case fields of that chunk's row
JoinedFrom(r, h) ==
    /\ h.idx < Len(id_map)
    /\ r.chunk_id = id_map_at(h.idx)
    /\ r.score = h.score
    /\ r.chunk_id \in DOMAIN store
    /\ r.text = store[r.chunk_id].text
    /\ r.court = store[r.chunk_id].court
    /\ r.decision_date = store[r.chunk_id].decision_date

\* the results are joined from hits taken in the order of the hits
RECURSIVE InHitOrder(_, _)
InHitOrder(rs, hits) ==
    IF rs = << >> THEN TRUE
    ELSE IF hits = << >> THEN FALSE
    ELSE IF JoinedFrom(Head(rs), Head(hits)) THEN InHitOrder(Tail(rs), Tail(hits))
    ELSE InHitOrder(rs, Tail(hits))

\* C7: in both run_query variants the context handed to generate_answer is
\* the texts of the first min(MAX_CONTEXT_CHUNKS, len(filtered)) filtered
\* candidates in their order, the filtered candidates are search's results
\* with some deleted (never reordered), and the prompt numbers at most
\* MAX_CONTEXT_CHUNKS chunks for every top_k.
C7_ContextBudget ==
    QueryDone =>
        /\ q_context = [ i \in 1..Min(MAX_CONTEXT_CHUNKS, Len(q_filtered)) |->
                            q_filtered[i].text ]
        /\ IsSubseq(q_filtered, q_retrieved)
        /\ Len(q_prompt) <= MAX_CONTEXT_CHUNKS
        /\ Len(q_prompt) = Len(q_context)
        /\ \A i \in 1..Len(q_prompt) :
              q_prompt[i].n = i /\ q_prompt[i].chunk = q_context[i]

\* a query asking for more than the budget, with more filtered candidates
\* than the budget and a candidate removed by the filter
C7_Witness ==
    /\ QueryDone
    /\ q_top_k > MAX_CONTEXT_CHUNKS
    /\ Len(q_filtered) > MAX_CONTEXT_CHUNKS
    /\ Len(q_retrieved) > Len(q_filtered)
    /\ Len(q_context) = MAX_CONTEXT_CHUNKS

\* the engine had at least k rows to answer with (no padding entry), the id
\* map has one entry per index row and every chunk has its store row
CleanQuery ==
    /\ q_search_k <= Len(index_ranking)
    /\ Len(id_map) = Len(index_ranking)
    /\ \A i \in 1..Len(id_map) : id_map[i] \in DOMAIN store

\* C8: run_query of src/src/pipeline.py returns as citation list the first
\* min(top_k, len(filtered)) filtered candidates (stated for a consistent
\* index, id map and store holding at least as many rows as search asks for).
C8_TopKCitations ==
    (q_op = "run_query" /\ CleanQuery) =>
        /\ Len(q_chunks) = Min(q_top_k, Len(q_filtered))
        /\ \A i \in 1..Len(q_chunks) : q_chunks[i] = q_filtered[i]

\* C9: in run_query of rag_pipeline.py every numbered context entry [n] has
\* an n-th returned citation, and that citation is the chunk with the
\* entry's text (stated for a consistent index, id map and store
\* holding at least as many rows as search asks for).
C9_NumberingMatches ==
    (q_op = "run_query_old" /\ CleanQuery) =>
        \A i \in 1..Len(q_prompt) :
            /\ q_prompt[i].n <= Len(q_chunks)
            /\ q_chunks[q_prompt[i].n].text = q_prompt[i].chunk

\* C10: search(query, k) returns at most k results, with non-increasing
\* scores, each the join of one of the engine's hits with its store row
\* (same score), taken in the order of the hits.
C10_SearchRankOrder ==
    q_op \in { "search", "run_query", "run_query_old" } =>
        /\ Len(q_retrieved) <= q_search_k
        /\ \A i \in 1..(Len(q_retrieved) - 1) :
              q_retrieved[i].score >= q_retrieved[i + 1].score
        /\ InHitOrder(q_retrieved, index_search(q_search_k))

\* a direct search whose hits are not in chunk-id order, with a stale hit
\* skipped and at least two results
C10_Witness ==
    /\ q_op = "search"
    /\ Len(q_retrieved) >= 2
    /\ q_retrieved[1].chunk_id > q_retrieved[2].chunk_id
    /\ \E j \in 1..Len(index_ranking) :
          /\ j <= q_search_k
          /\ index_ranking[j] < Len(id_map)
          /\ id_map_at(index_ranking[j]) \notin DOMAIN store

\* the engine's hits that name a row of the id map, in rank order
RankedCandidates ==
    SelectSeq(index_search(q_search_k),
              LAMBDA h : h.idx >= 0 /\ h.idx < Len(id_map))

\* a candidate is stale when its chunk id has no row in the store
IsStale(h) == id_map[h.idx + 1] \notin DOMAIN store

\* (chunk id, score) of each candidate that is not stale, in rank order
LiveCandidates ==
    LET live == SelectSeq(RankedCandidates, LAMBDA h : ~IsStale(h))
    IN  [ j \in 1..Len(live) |->
            [ chunk_id |-> id_map[live[j].idx + 1], score |-> live[j].score ] ]

IdAndScore(rs) ==
    [ j \in 1..Len(rs) |-> [ chunk_id |-> rs[j].chunk_id, score |-> rs[j].score ] ]

\* C13: search raises nothing when a ranked candidate's chunk id has no row
\* in the store; no result carries such a chunk id, and every other
\* candidate is returned with its own score, in the candidates' order (when
\* the engine had k rows to answer with, nothing else is returned).
C13_StaleDropped ==
    q_op = "search" =>
        /\ q_raised = None
        /\ \A i \in 1..Len(q_retrieved) : q_retrieved[i].chunk_id \in DOMAIN store
        /\ IsSubseq(LiveCandidates, IdAndScore(q_retrieved))
        /\ q_search_k <= Len(index_ranking) =>
              IdAndScore(q_retrieved) = LiveCandidates

\* a search with a stale candidate ranked above one that has its row
C13_Witness ==
    /\ q_op = "search"
    /\ q_raised = None
    /\ \E i, j \in 1..Len(RankedCandidates) :
          /\ i < j
          /\ IsStale(RankedCandidates[i])
          /\ ~IsStale(RankedCandidates[j])
          /\ \E r \in 1..Len(q_retrieved) :
                q_retrieved[r].chunk_id = id_map[RankedCandidates[j].idx + 1]

\* C24: for every k >= 1, also k larger than the number of indexed vectors,
\* search (loaded index and id map of the same length) returns no chunk id
\* twice, and every result is the chunk and score of one of the engine's
\* hits on a real row 0..n-1.
C24_DistinctRealRows ==
    (q_op \in { "search", "run_query", "run_query_old" }
     /\ Len(id_map) = Len(index_ranking)) =>
        /\ \A i, j \in 1..Len(q_retrieved) :
              i # j => q_retrieved[i].chunk_id # q_retrieved[j].chunk_id
        /\ \A i \in 1..Len(q_retrieved) :
              \E j \in 1..Min(q_search_k, Len(index_ranking)) :
                  /\ q_retrieved[i].chunk_id = id_map[index_ranking[j] + 1]
                  /\ q_retrieved[i].score = index_scores[j]

\* ------------------------------------------------------------------------
\* Properties of generate_answer within run_query
\* ------------------------------------------------------------------------
\* the string starts with an **Error label
Labelled(a) == a.label # ""

\* C14: when no candidate is left after search and the filters, run_query
\* of src/src/pipeline.py raises nothing, has called generate_answer exactly
\* once, with the empty context list, and returns that call's answer with an
\* empty citation list.
C14_EmptyContextStillGenerates ==
    (q_op = "run_query" /\ q_filtered = << >>) =>
        /\ q_raised = None
        /\ gen_calls = << << >> >>
        /\ q_answer = generate_answer(<< >>).value
        /\ q_answer # None
        /\ q_chunks = << >>

\* the filters removed every candidate search had returned
C14_Witness ==
    /\ q_op = "run_query"
    /\ q_retrieved # << >>
    /\ q_filtered = << >>
    /\ Len(gen_calls) = 1

\* the service failed in one of the ways the claim lists
ServiceFailed ==
    ollama \in { "refused", "timeout", "http_error", "not_json",
                 "no_response_field", "response_null" }

\* the citation list of everything the filters kept, up to the budget
FullCitations ==
    q_chunks = [ i \in 1..Min(MAX_CONTEXT_CHUNKS, Len(q_filtered)) |-> q_filtered[i] ]

\* C15 as stated: on every failure of the generation service (refused,
\* timeout, HTTP error status, malformed response) generate_answer raises
\* nothing and returns a labelled error string, and run_query returns the
\* full citation list.
C15_Original ==
    (q_op = "run_query" /\ ServiceFailed) =>
        /\ q_raised = None
        /\ q_answer # None
        /\ Labelled(ValueOf(q_answer))
        /\ FullCitations

\* C15, amended: generate_answer never raises; the string it returns is
\* labelled as an error for a refused connection, a timeout, an HTTP error
\* status, a body that is not JSON and a null "response", and is the empty
\* string for a JSON object without a "response" field; run_query returns
\* the full citation list in every case.
C15_NeverRaises ==
    q_op = "run_query" =>
        /\ q_raised = None
        /\ q_answer # None
        /\ (ServiceFailed /\ ollama # "no_response_field") =>
              Labelled(ValueOf(q_answer))
        /\ ollama = "no_response_field" => ValueOf(q_answer) = AnswerString("", << >>)
        /\ ollama = "ok" => ~Labelled(ValueOf(q_answer))
        /\ FullCitations

\* the service answered with an HTTP error status and citations came back
C15_Witness ==
    /\ q_op = "run_query"
    /\ ollama = "http_error"
    /\ Len(q_chunks) >= 2
    /\ q_answer # None

\* ------------------------------------------------------------------------
\* Properties of build_index, _load_index and search from the files
\* ------------------------------------------------------------------------
CallMade == q_op \in { "search", "run_query" }

\* C11: while the index file does not exist, a call of search or run_query
\* ends in the FileNotFoundError that names the build command; the embedder
\* has not been constructed, no file has been read, the store has not been
\* queried, and run_query has not called generate_answer and returns
\* nothing.
C11_IndexNotBuilt ==
    (CallMade /\ file_index = None) =>
        /\ q_raised = Some(IndexNotBuilt)
        /\ cache_embedder = None
        /\ embedders_built = 0
        /\ cache_index = None
        /\ cache_chunk_id_map = None
        /\ file_reads = 0
        /\ store_queries = 0
        /\ q_retrieved = << >>
        /\ gen_calls = << >>
        /\ q_answer = None
        /\ q_chunks = << >>

\* run_query was called twice with no index file on disk
C11_Witness ==
    /\ q_op = "run_query"
    /\ file_index = None
    /\ q_calls = MaxCalls
    /\ q_raised = Some(IndexNotBuilt)

\* C12: a build_index run that reads zero rows ends in the RuntimeError of
\* line 87 and writes neither file: the artifact directory is still empty,
\* or still holds the pair of the earlier build.
C12_EmptyCorpusWritesNothing ==
    (b_run > 0 /\ DOMAIN store = { }) =>
        /\ b_pc = "failed"
        /\ b_error = Some("RuntimeError: No chunks found. Run preprocessing first.")
        /\ \/ file_index = None /\ file_id_map = None
           \/ /\ file_index = Some(PriorIndex(encode_fn))
              /\ file_id_map = Some(PriorIdMap)

\* a build over no rows has failed with an earlier pair on disk
C12_Witness ==
    /\ b_run > 0
    /\ DOMAIN store = { }
    /\ b_pc = "failed"
    /\ file_index = Some(PriorIndex(encode_fn))
    /\ file_id_map = Some(PriorIdMap)

BothLoaded == cache_index # None /\ cache_chunk_id_map # None

\* C17: a process that holds a loaded index and a loaded id map holds the
\* two files of one build_index run.
C17_SameBuildPair ==
    BothLoaded => ValueOf(cache_index).run = ValueOf(cache_chunk_id_map).run

\* C18: once the index and the id map are loaded, no later step replaces
\* either cached object or reads a file, and every successful call computes
\* its hits from the cached vectors and the cached id map, whatever build
\* has completed since.
C18_LoadedOnce ==
    /\ [][ BothLoaded =>
              /\ cache_index' = cache_index
              /\ cache_chunk_id_map' = cache_chunk_id_map
              /\ file_reads' = file_reads ]_vars
    /\ []( (CallMade /\ q_raised = None) =>
              /\ BothLoaded
              /\ id_map = ValueOf(cache_chunk_id_map).ids
              /\ Len(index_ranking) = Len(ValueOf(cache_index).vectors)
              /\ \A j \in 1..Len(index_ranking) :
                    index_scores[j] =
                        Similarity(encode_fn[q_query],
                                   ValueOf(cache_index).vectors[index_ranking[j] + 1]) )

\* a search answered from the loaded pair of one run while the files on
\* disk were the complete pair of a later run
C18_Witness ==
    /\ q_op = "search"
    /\ q_raised = None
    /\ BothLoaded
    /\ ValueOf(cache_index).run = ValueOf(cache_chunk_id_map).run
    /\ q_disk_run # None
    /\ ValueOf(q_disk_run) > ValueOf(cache_index).run
    /\ file_id_map # None
    /\ ValueOf(file_id_map).run = ValueOf(q_disk_run)
    /\ b_pc = "done"

\* C19: after a build_index run that completed, the id map file has one
\* entry per row read from the store, the index has one row per entry, and
\* row i of the index is the embedding of the text of the chunk that entry i
\* names.
C19_IdMapAligned ==
    b_pc = "done" =>
        /\ file_index # None
        /\ file_id_map # None
        /\ ValueOf(file_index).run = b_run
        /\ ValueOf(file_id_map).run = b_run
        /\ b_rows = fetch_rows
        /\ Len(ValueOf(file_id_map).ids) = Len(b_rows)
        /\ Len(ValueOf(file_index).vectors) = Len(b_rows)
        /\ \A i \in 1..Len(b_rows) :
              /\ ValueOf(file_id_map).ids[i] = b_rows[i][1]
              /\ ValueOf(file_index).vectors[i] = encode_fn[b_rows[i][2]]

\* a completed build whose last batch is shorter than the batch size, over
\* texts with different embeddings
C19_Witness ==
    /\ b_pc = "done"
    /\ batch_size > 1
    /\ Len(b_rows) > batch_size
    /\ Len(b_rows) % batch_size # 0
    /\ \E i, j \in 1..Len(b_rows) : encode_fn[b_rows[i][2]] # encode_fn[b_rows[j][2]]

\* the process has loaded the pair of one build run over the present corpus
BuiltOverCorpus ==
    /\ BothLoaded
    /\ ValueOf(cache_index).run = ValueOf(cache_chunk_id_map).run
    /\ ValueOf(cache_chunk_id_map).ids = chunk_ids_of(fetch_rows)
    /\ ValueOf(cache_index).vectors = encode(texts_of(fetch_rows))

SelfSearch == q_op = "search" /\ q_raised = None /\ BuiltOverCorpus

\* C20 as stated: a search with the exact text of a chunk of the indexed
\* corpus returns that chunk first.
C20_Original ==
    SelfSearch =>
        \A c \in DOMAIN store :
            store[c].text = q_query =>
                q_retrieved # << >> /\ q_retrieved[1].chunk_id = c

\* C20, amended: a search with the exact text of chunk C of the indexed
\* corpus returns first a chunk whose text has the embedding of C's text,
\* with the score of a vector with itself; that chunk is C when no other
\* chunk of the corpus has that embedding.
C20_SelfRetrieval ==
    SelfSearch =>
        \A c \in DOMAIN store :
            store[c].text = q_query =>
                /\ q_retrieved # << >>
                /\ encode_fn[q_retrieved[1].text] = encode_fn[q_query]
                /\ q_retrieved[1].score =
                      Similarity(encode_fn[q_query], encode_fn[q_query])
                /\ (\A d \in DOMAIN store \ { c } :
                        encode_fn[store[d].text] # encode_fn[q_query])
                      => q_retrieved[1].chunk_id = c

\* the text searched for is that of a chunk which is not the first row and
\* whose embedding no other chunk has; it is returned first, before others
C20_Witness ==
    /\ SelfSearch
    /\ Len(q_retrieved) >= 2
    /\ \E c \in DOMAIN store :
          /\ c > 1
          /\ store[c].text = q_query
          /\ \A d \in DOMAIN store \ { c } :
                encode_fn[store[d].text] # encode_fn[q_query]
          /\ q_retrieved[1].chunk_id = c

\* ------------------------------------------------------------------------
\* Properties of first-use initialization
\* ------------------------------------------------------------------------
AllDone == \A t \in DOMAIN t_pc : t_pc[t] = "done"

\* C16: however the first searches of the threads interleave, one embedder
\* is constructed, the index file and the id map file are read once each,
\* and when all threads are past the two calls they have been given the same
\* index, id map and embedder objects.
C16_InitSerialized ==
    /\ embedders_built <= 1
    /\ file_reads <= 2
    /\ AllDone =>
          \A t, u \in DOMAIN t_pc :
              /\ t_index[t] = t_index[u]
              /\ t_id_map[t] = t_id_map[u]
              /\ t_embedder[t] = t_embedder[u]

\* ------------------------------------------------------------------------
\* Properties of insert_chunks, ingest_cases and process_opinions
\* ------------------------------------------------------------------------
chunk_ids_in(rows) == { rows[i].chunk_id : i \in 1..Len(rows) }

\* the rows of a table with chunk id c, and those with none of the ids cs
RowsOf(table, c) == SelectSeq(table, LAMBDA r : r.chunk_id = c)
RowsBeside(table, cs) == SelectSeq(table, LAMBDA r : r.chunk_id \notin cs)

\* the last row with chunk id c in the list handed to insert_chunks
LastGiven(rows, c) ==
    rows[CHOOSE i \in 1..Len(rows) :
            /\ rows[i].chunk_id = c
            /\ \A j \in (i + 1)..Len(rows) : rows[j].chunk_id # c]

InsertReturned == ic_pc = "done" /\ ic_raised = None

\* C21: after insert_chunks(rows) has returned, the chunks table holds
\* exactly one row for every chunk id of rows, equal to the row given last
\* for that id; the table grew only by the ids it did not hold before (not
\* at all when it held them all); the rows with other chunk ids are as
\* before, in their order; and the same call once more changes nothing.
C21_InsertReplaces ==
    InsertReturned =>
        /\ \A c \in chunk_ids_in(ic_rows) :
              RowsOf(db_chunks, c) = << LastGiven(ic_rows, c) >>
        /\ Len(db_chunks) = Len(ic_before)
              + Cardinality(chunk_ids_in(ic_rows) \ chunk_ids_in(ic_before))
        /\ RowsBeside(db_chunks, chunk_ids_in(ic_rows))
              = RowsBeside(ic_before, chunk_ids_in(ic_rows))
        /\ insert_chunks(db_chunks, db_cases, ic_rows).table = db_chunks

\* a call that gave new values for a chunk id the table held, beside a row
\* with another chunk id
C21_Witness ==
    /\ InsertReturned
    /\ Len(db_chunks) = Len(ic_before)
    /\ RowsBeside(ic_before, chunk_ids_in(ic_rows)) # << >>
    /\ \E c \in chunk_ids_in(ic_rows) \cap chunk_ids_in(ic_before) :
          /\ RowsOf(ic_before, c) # << LastGiven(ic_rows, c) >>
          /\ RowsOf(db_chunks, c) = << LastGiven(ic_rows, c) >>

\* the opinions of the files read so far by any run
FileOpinions ==
    UNION { { raw_files[i].opinions[j] : j \in 1..Len(raw_files[i].opinions) } :
            i \in 1..Len(raw_files) }

\* C22: whatever ingest_cases runs were made, every row of opinions holds
\* the cleaned text of an opinion of a case file, and that text has at
\* least MIN_OPINION_LENGTH characters (cleaning it again does not shorten
\* it).
C22_NoShortOpinion ==
    \A i \in 1..Len(db_opinions) :
        /\ Len(db_opinions[i].text) >= MIN_OPINION_LENGTH
        /\ clean_text(db_opinions[i].text) = db_opinions[i].text
        /\ \E o \in FileOpinions :
              db_opinions[i].text = clean_text(OrEmpty(o.text))

\* the case a file names, and whether the store holds it as this file
\* gave it
case_id_of(file) == OrElse(file.id, file.stem)
IngestedFrom(file) ==
    \E i \in 1..Len(db_cases) : db_cases[i] = CaseRow(case_id_of(file), file.meta)

\* a finished run ingested a case from a file that also holds an opinion
\* whose raw text is long enough and whose cleaned text is not
C22_Witness ==
    /\ ing_pc = "done"
    /\ \E i \in 1..Len(raw_files) :
          /\ IngestedFrom(raw_files[i])
          /\ \E j \in 1..Len(raw_files[i].opinions) :
                LET raw == OrEmpty(raw_files[i].opinions[j].text)
                IN  /\ Len(raw) >= MIN_OPINION_LENGTH
                    /\ Len(clean_text(raw)) < MIN_OPINION_LENGTH

IsPrefix(s, t) == Len(s) <= Len(t) /\ SubSeq(t, 1, Len(s)) = s

\* C29: no step of ingest_cases changes or removes a row of cases or
\* opinions that is in the store, and the opinions it adds belong to a case
\* that was not in the store; a run over the same files as the run before
\* leaves the database as that run left it; every case in the store has an
\* opinion row.
C29_IngestIdempotent ==
    /\ [][ /\ IsPrefix(db_cases, db_cases')
           /\ IsPrefix(db_opinions, db_opinions')
           /\ \A i \in (Len(db_opinions) + 1)..Len(db_opinions') :
                 ~case_exists(db_cases, db_opinions'[i].case_id) ]_vars
    /\ [](\A i \in 1..(Len(ing_left) - 1) :
             ing_left[i + 1].files = ing_left[i].files
                => ing_left[i + 1].db = ing_left[i].db)
    /\ [](\A c \in case_ids(db_cases) :
             \E i \in 1..Len(db_opinions) : db_opinions[i].case_id = c)

\* two finished runs over the same files, which hold a second file for a
\* case that was ingested from another file
C29_Witness ==
    /\ Len(ing_left) >= 2
    /\ ing_left[2].files = ing_left[1].files
    /\ ing_pc = "done"
    /\ \E i \in 1..Len(raw_files) :
          /\ raw_files[i].parses
          /\ extract_opinions(raw_files[i].opinions) # << >>
          /\ case_exists(db_cases, case_id_of(raw_files[i]))
          /\ ~IngestedFrom(raw_files[i])

\* the rows of chunks for position k of opinion o
ChunksAt(o, k) ==
    { j \in 1..Len(db_chunks) :
        /\ db_chunks[j].chunk_id[1] = o.case_id
        /\ db_chunks[j].chunk_id[2] = o.opinion_id
        /\ db_chunks[j].position = k }

\* C27: a process_opinions run over unchanged opinions leaves the chunks
\* table as the run before left it, and after every finished run each
\* opinion has exactly one chunk row per position 0..n-1 (stated for the
\* runs in which uuid4 gave no two chunks the same identifier).
C27_StableChunkIds ==
    ~p_id_clash =>
        /\ \A i \in 1..(Len(p_left) - 1) : p_left[i + 1] = p_left[i]
        /\ p_pc = "done" =>
              \A i \in 1..Len(p_fetched) :
                  \A k \in 0..(Len(chunk_text(p_fetched[i].text)) - 1) :
                      Cardinality(ChunksAt(p_fetched[i], k)) = 1

\* ------------------------------------------------------------------------
\* Properties of iter_scotus_opinions
\* ------------------------------------------------------------------------
\* the opinions of pages 1..n, in order
ResultsUpTo(n) == Concat([ i \in 1..n |-> dl_pages[i].results ])

DlEnded == dl_pc \in { "gave_up", "returned" }

\* C30: no page is requested more than max_retries times; what has been
\* yielded is always the opinions of the fetched pages in order; when every
\* attempt for a page failed the generator has ended with the opinions of
\* the pages before it and no later page was requested; when it ended
\* otherwise (max_retries >= 1) the last page has no next link and every
\* opinion of every page was yielded; and the generator does end.
C30_BoundedRetries ==
    /\ [](\A i \in 1..Len(dl_pages) : dl_requests[i] <= dl_max_retries)
    /\ [](IsPrefix(dl_yielded, ResultsUpTo(Len(dl_pages))))
    /\ [](dl_pc = "gave_up" =>
             /\ dl_requests[dl_page] = dl_max_retries
             /\ dl_yielded = ResultsUpTo(dl_page - 1)
             /\ \A i \in (dl_page + 1)..Len(dl_pages) : dl_requests[i] = 0)
    /\ [](dl_pc = "returned" /\ dl_max_retries >= 1 =>
             /\ ~dl_pages[dl_page].next
             /\ dl_yielded = ResultsUpTo(Len(dl_pages)))
    /\ <>DlEnded

\* the second page failed max_retries >= 2 times after the opinions of the
\* first page were yielded
C30_Witness ==
    /\ dl_pc = "gave_up"
    /\ dl_page = 2
    /\ dl_max_retries >= 2
    /\ dl_requests[2] = dl_max_retries
    /\ dl_yielded # << >>
    /\ dl_yielded = ResultsUpTo(1)

\* ------------------------------------------------------------------------
\* Properties of the store connections of search and build_index
\* ------------------------------------------------------------------------
\* C23: a call of search or run_query, returning or raising, leaves the rows
\* of cases, opinions and chunks and the files faiss.index and chunk_ids.npy
\* as they were.
C23_QueryReadOnly ==
    [][ q_calls' # q_calls =>
            /\ StoreRows' = StoreRows
            /\ db_now' = db_now
            /\ file_index' = file_index
            /\ file_id_map' = file_id_map ]_vars

\* a run_query call that raised, and a search that returned results, over
\* a store that holds rows and an index file on disk
C23_Witness ==
    /\ q_calls >= 1
    /\ StoreRows # << >>
    /\ file_index # None
    /\ \/ q_op = "run_query" /\ q_raised # None
       \/ q_op = "search" /\ q_raised = None /\ q_retrieved # << >>

\* C28: every connection search or build_index opened is closed when the
\* call has returned or raised.
C28_ConnectionsReleased == open_conns = 0

\* ------------------------------------------------------------------------
\* Specifications
\* ------------------------------------------------------------------------
\* chunk_text on every text and chunking configuration within the bounds
Init == ChunkInit /\ FilterOff /\ QueryIdle /\ IndexIdle /\ ThreadIdle
        /\ DataIdle /\ ConnReady

Next == ChunkLoopStep \/ ChunkFinish

Spec == Init /\ [][Next]_vars

\* filter_results on every candidate list and filter within the bounds
InitFilter == ChunkIdle /\ FilterIdle /\ QueryIdle /\ IndexIdle /\ ThreadIdle
        /\ DataIdle /\ ConnReady

NextFilter == FilterCall

SpecFilter == InitFilter /\ [][NextFilter]_vars

\* search and both run_query variants on every index, id map and store
\* within the bounds
InitQuery == ChunkIdle /\ FilterOff /\ QueryInit /\ IndexIdle /\ ThreadIdle
        /\ DataIdle /\ ConnReady

NextQuery == SearchCall \/ RunQuery \/ RunQueryOld

SpecQuery == InitQuery /\ [][NextQuery]_vars

\* run_query of src/src/pipeline.py against every state of the generation
\* service
InitGen == ChunkIdle /\ FilterOff /\ GenInit /\ IndexIdle /\ ThreadIdle
        /\ DataIdle /\ ConnReady

NextGen == RunQuery

SpecGen == InitGen /\ [][NextGen]_vars

\* build_index runs over every corpus and batch size within the bounds
InitBuild ==
    /\ ChunkIdle
    /\ FilterOff
    /\ ThreadIdle
    /\ DataIdle
    /\ ConnReady
    /\ IndexInit(0..MaxCorpus, Embedders, 1..MaxBatch, BOOLEAN, 0, 0)

NextBuild ==
    \/ BuildStart
    \/ BuildEncodeBatch
    \/ BuildWriteIndex
    \/ BuildWriteIdMap
    \/ BuildInterrupted

SpecBuild == InitBuild /\ [][NextBuild]_vars

\* build_index runs over a corpus of at most one chunk, and search and
\* run_query calls made between them by a process that starts with empty
\* caches
InitIndex ==
    /\ ChunkIdle
    /\ FilterOff
    /\ ThreadIdle
    /\ DataIdle
    /\ ConnReady
    /\ IndexInit({ 0, 1 }, Embedders, { 1 }, BOOLEAN, 0, 0)

NextIndex ==
    \/ BuildStart
    \/ BuildEncodeBatch
    \/ BuildWriteIndex
    \/ BuildWriteIdMap
    \/ BuildInterrupted
    \/ SearchFromFiles
    \/ RunQueryFromFiles

SpecIndex == InitIndex /\ [][NextIndex]_vars

\* the last build_index run of a behaviour, over every corpus that has a
\* chunk, and its last search, for a chunk text
InitSelf ==
    /\ ChunkIdle
    /\ FilterOff
    /\ ThreadIdle
    /\ DataIdle
    /\ ConnReady
    /\ IndexInit(1..MaxCorpus, Embedders, { MaxBatch }, { FALSE },
                 MaxBuilds - 1, MaxCalls - 1)

NextSelf ==
    \/ BuildStart
    \/ BuildEncodeBatch
    \/ BuildWriteIndex
    \/ BuildWriteIdMap
    \/ BuildInterrupted
    \/ SearchFromFiles

SpecSelf == InitSelf /\ [][NextSelf]_vars

\* the threads of one process making their first search at the same time
InitThreads == ChunkIdle /\ FilterOff /\ QueryIdle /\ ThreadInit
               /\ DataIdle /\ ConnReady

NextThreads ==
    \E t \in Threads :
        \/ TestIndex(t)
        \/ ReadIndex(t)
        \/ TestIdMap(t)
        \/ ReadIdMap(t)
        \/ ReturnIndex(t)
        \/ TestEmbedder(t)
        \/ ConstructEmbedder(t)
        \/ ReturnEmbedder(t)

SpecThreads == InitThreads /\ [][NextThreads]_vars

\* everything but the data path idle
RetrievalIdle ==
    /\ ChunkIdle
    /\ FilterOff
    /\ QueryIdle
    /\ IndexIdle
    /\ ThreadIdle
    /\ ConnReady

\* one insert_chunks call on every chunks table and row list within the
\* bounds
InitInsert ==
    /\ RetrievalIdle
    /\ InsertInit
    /\ IngestIdle
    /\ ProcessIdle
    /\ DownloadIdle

NextInsert == InsertChunksCall

SpecInsert == InitInsert /\ [][NextInsert]_vars

\* ingest_cases runs over a raw data directory that files are added to
InitIngest ==
    /\ RetrievalIdle
    /\ IngestInit
    /\ InsertIdle
    /\ ProcessIdle
    /\ DownloadIdle

NextIngest ==
    \/ FileAdded
    \/ IngestStart
    \/ IngestFile
    \/ IngestFinish

SpecIngest == InitIngest /\ [][NextIngest]_vars

\* process_opinions runs over an opinions table that does not change
InitProcess ==
    /\ RetrievalIdle
    /\ ProcessInit
    /\ InsertIdle
    /\ IngestIdle
    /\ DownloadIdle

NextProcess ==
    \/ ProcessStart
    \/ ProcessOpinion
    \/ ProcessFinish

SpecProcess == InitProcess /\ [][NextProcess]_vars

\* one iter_scotus_opinions generator run to its end by its consumer, against
\* an endpoint whose every request may fail
InitDownload ==
    /\ RetrievalIdle
    /\ DownloadInit
    /\ DbEmpty
    /\ InsertIdle
    /\ IngestIdle
    /\ ProcessIdle

NextDownload ==
    \/ DlRequest
    \/ DlNoAttemptLeft
    \/ DlYield
    \/ DlNextPage

SpecDownload == InitDownload /\ [][NextDownload]_vars /\ WF_vars(NextDownload)

\* build_index runs and search and run_query calls with the database file
\* absent, empty or initialised
InitConn ==
    /\ ChunkIdle
    /\ FilterOff
    /\ ThreadIdle
    /\ DataIdle
    /\ IndexInit({ 0, 1 }, { [ t \in TextPool |-> "va" ] }, { 1 }, BOOLEAN, 0, 0)
    /\ db_file \in { "absent", "no_tables", "ready" }
    /\ db_file # "ready" => store = << >>
    /\ open_conns = 0

SpecConn == InitConn /\ [][NextIndex]_vars

====
